---- MODULE Spec2Model ----
(***************************************************************************)
(* United-Tribes/ut-api: the query-time retrieval-and-attribution pipeline *)
(* (ut-vector-store search + ut-query-service orchestration).              *)
(*                                                                         *)
(* Text is a sequence of one-character strings, so that slicing, lower-    *)
(* casing, splitting and substring tests are computed as Python computes   *)
(* them.  An absent or None string is the empty text <<>> (the code only   *)
(* tests such values for truthiness).  Confidences are integer percents    *)
(* (0.9 is 90).  A relevance score matches / len(query_terms) is the exact *)
(* fraction [num, den].                                                    *)
(***************************************************************************)
EXTENDS Integers, Sequences, FiniteSets, TLC

VARIABLES
    relationships,      \* IndexManager.relationships: the loaded corpus
    searchLog,          \* the last POST /search served by the vector store
    backend,            \* what answers VectorStoreClient.search
    synthesizer,        \* the CulturalCartographer in use
    data_summary,       \* QueryProcessor.data_summary (<<>> is None)
    pc,                 \* position of the query service in its request
    request,            \* arguments of the running process_query call
    primary_results,    \* search_results of process_query: hits of the primary search
    synthesis,          \* cultural_response of process_query: text returned by generate_response
    response,           \* what process_query returned to its caller
    log,                \* history of the request: searches sent, calls made
    heap,               \* the list objects ever bound to IndexManager.relationships
    index,              \* IndexManager: lifecycle, the list it references, loads in flight
    readers,            \* running search_relationships / get_relationships_by_entity calls
    verification_cache, \* CitationService.verification_cache: url -> SourceVerification
    now,                \* datetime.now(timezone.utc), in seconds
    bulk,               \* the running bulk_verify_sources call and its tasks
    last_verify,        \* the last verify_source call made outside a bulk call
    ticks,              \* how many times the clock has advanced
    citations,          \* the citation list _deduplicate_citations is applied to
    build_jobs,         \* app.build_jobs: one entry per build id (ids in order of creation)
    background_tasks,   \* where the background task of each build job stands
    build_status        \* the last answer of GET /index/build/{build_id}

\* the state of the index-manager internals and of the citation service
extraVars == <<heap, index, readers, verification_cache, now, bulk, last_verify, ticks,
               citations, build_jobs, background_tasks, build_status>>

(***************************************************************************)
(* Bounds of the model                                                     *)
(***************************************************************************)
MaxCorpus == 2       \* longest corpus drawn

(***************************************************************************)
(* Python str helpers                                                      *)
(***************************************************************************)
UpperChars == <<"A","B","C","D","E","F","G","H","I","J","K","L","M",
                "N","O","P","Q","R","S","T","U","V","W","X","Y","Z">>
LowerChars == <<"a","b","c","d","e","f","g","h","i","j","k","l","m",
                "n","o","p","q","r","s","t","u","v","w","x","y","z">>

\* str.lower() on one character
LowerChar(c) ==
    IF \E i \in DOMAIN UpperChars : UpperChars[i] = c
    THEN LowerChars[CHOOSE i \in DOMAIN UpperChars : UpperChars[i] = c]
    ELSE c

\* str.lower()
Lower(s) == [i \in DOMAIN s |-> LowerChar(s[i])]

\* needle in hay  (Python substring test; '' is in every string)
Contains(hay, needle) ==
    \E i \in 0..(Len(hay) - Len(needle)) :
        \A j \in 1..Len(needle) : hay[i + j] = needle[j]

\* s[:n]
Take(s, n) == SubSeq(s, 1, IF n < Len(s) THEN n ELSE Len(s))

IsSpace(c) == c \in {" ", "\t", "\n"}

\* str.split(): split on runs of whitespace, no empty words
RECURSIVE SplitFrom(_, _, _, _)
SplitFrom(s, i, word, acc) ==
    IF i > Len(s)
    THEN IF word = <<>> THEN acc ELSE Append(acc, word)
    ELSE IF IsSpace(s[i])
         THEN SplitFrom(s, i + 1, <<>>, IF word = <<>> THEN acc ELSE Append(acc, word))
         ELSE SplitFrom(s, i + 1, Append(word, s[i]), acc)

Split(s) == SplitFrom(s, 1, <<>>, <<>>)

\* ' '.join(parts)
RECURSIVE JoinSp(_)
JoinSp(parts) ==
    IF parts = <<>> THEN <<>>
    ELSE IF Len(parts) = 1 THEN parts[1]
    ELSE parts[1] \o <<" ">> \o JoinSp(Tail(parts))

Ellipsis == <<".", ".", ".">>

(***************************************************************************)
(* Relationships of the knowledge graph                                    *)
(***************************************************************************)
Bob   == <<"B","o","b">>
Woo   == <<"W","o","o">>
Nina  == <<"N","i","n","a">>
Infl  == <<"i","n","f","l">>
Coll  == <<"c","o","l","l">>
NPR   == <<"N","P","R">>
Pfk   == <<"P","f","k">>
Url1  == <<"h","t","t","p","s",":","/","/","n","p","r",".","o","r","g","/","x">>

Rel(se, rt, te, ev, cc, tc, src, url, conf) ==
    [source_entity |-> se, relationship_type |-> rt, target_entity |-> te,
     evidence |-> ev, cultural_context |-> cc, temporal_context |-> tc,
     source |-> src, url |-> url, confidence |-> conf]

\* Bob -infl-> Woo, NPR, 0.8 / 0.3 (same text), and 0.9 under another source
RelA80 == Rel(Bob, Infl, Woo, <<"B","o","b"," ","c","i","t","e","d"," ","W","o","o">>,
              <<>>, <<>>, NPR, Url1, 80)
RelA30 == [RelA80 EXCEPT !.confidence = 30]
RelB90 == Rel(Nina, Coll, Bob, <<>>, <<"j","a","z","z">>, <<"1","9","6","0">>,
              Pfk, <<>>, 90)
\* a canonical-reference stub: no entities, confidence under the 0.1 floor
RelC05 == Rel(<<>>, <<"r","e","f">>, <<>>, <<"W","o","o"," ","b","i","o">>,
              <<>>, <<>>, <<"n","p","r">>, <<>>, 5)
\* no relationship type, no source
RelD50 == Rel(Woo, <<>>, Nina, <<>>, <<>>, <<>>, <<>>, <<>>, 50)

RelPool == {RelA80, RelA30, RelB90, RelC05, RelD50}

RECURSIVE SeqsUpTo(_, _)
SeqsUpTo(S, n) ==
    IF n = 0 THEN {<<>>}
    ELSE LET shorter == SeqsUpTo(S, n - 1)
         IN shorter \cup {Append(s, x) : s \in {t \in shorter : Len(t) = n - 1}, x \in S}

Corpora == SeqsUpTo(RelPool, MaxCorpus)

(***************************************************************************)
(* IndexManager._create_searchable_text_from_relationship                  *)
(***************************************************************************)
CreateSearchableText(rel) ==
    LET p1 == IF rel.source_entity # <<>> /\ rel.target_entity # <<>>
              THEN << rel.source_entity \o <<" ">> \o rel.relationship_type
                      \o <<" ">> \o rel.target_entity >>
              ELSE <<>>
        p2 == IF rel.evidence # <<>> THEN <<rel.evidence>> ELSE <<>>
        p3 == IF rel.cultural_context # <<>> THEN <<rel.cultural_context>> ELSE <<>>
        p4 == IF rel.temporal_context # <<>> THEN <<rel.temporal_context>> ELSE <<>>
        p5 == IF rel.source # <<>>
              THEN << <<"S","o","u","r","c","e",":"," ">> \o rel.source >>
              ELSE <<>>
    IN JoinSp(p1 \o p2 \o p3 \o p4 \o p5)

(***************************************************************************)
(* IndexManager.search_relationships                                       *)
(***************************************************************************)
\* the source filter keeps rel (lines 309-312)
PassesSourceFilter(rel, source_filter) ==
    \/ source_filter = <<>>
    \/ Contains(Lower(rel.source), Lower(source_filter))

\* the entity filter keeps rel (lines 315-321)
PassesEntityFilter(rel, entity_filter) ==
    \/ entity_filter = <<>>
    \/ Contains(Lower(rel.source_entity), Lower(entity_filter))
    \/ Contains(Lower(rel.target_entity), Lower(entity_filter))

\* (variant: no confidence threshold)
PassesConfidence_NoThreshold(rel, min_confidence) == TRUE

\* the confidence threshold keeps rel (lines 324-326)
PassesConfidence(rel, min_confidence) == ~(rel.confidence < min_confidence)

\* (variant: a term repeated in the query is counted once)
MatchCount_Distinct(query_terms, text) ==
    Cardinality({query_terms[i] : i \in {j \in DOMAIN query_terms :
                                             Contains(text, query_terms[j])}})

\* (variant: one match is counted however many terms occur)
MatchCount_AnyTerm(query_terms, text) ==
    IF \E i \in DOMAIN query_terms : Contains(text, query_terms[i]) THEN 1 ELSE 0

\* matches = sum(1 for term in query_terms if term in searchable_text)
MatchCount(query_terms, text) ==
    Cardinality({i \in DOMAIN query_terms : Contains(text, query_terms[i])})

\* searchable_text[:200] + '...' if len(searchable_text) > 200 else searchable_text
MatchedText(text) == IF Len(text) > 200 THEN Take(text, 200) \o Ellipsis ELSE text

\* the hit of one relationship, or <<>> when it is filtered out or matches nothing
HitsOf(rel, query_lower, source_filter, entity_filter, min_confidence) ==
    IF ~PassesSourceFilter(rel, source_filter) THEN <<>>
    ELSE IF ~PassesEntityFilter(rel, entity_filter) THEN <<>>
    ELSE IF ~PassesConfidence(rel, min_confidence) THEN <<>>
    ELSE LET searchable_text == Lower(CreateSearchableText(rel))
             query_terms == Split(query_lower)
             matches == MatchCount(query_terms, searchable_text)
         IN IF matches > 0
            THEN << [relationship |-> rel,
                     relevance_score |-> [num |-> matches, den |-> Len(query_terms)],
                     searchable_text |-> MatchedText(searchable_text)] >>
            ELSE <<>>

RECURSIVE Collect(_, _, _, _, _)
Collect(rels, query_lower, source_filter, entity_filter, min_confidence) ==
    IF rels = <<>> THEN <<>>
    ELSE HitsOf(Head(rels), query_lower, source_filter, entity_filter, min_confidence)
         \o Collect(Tail(rels), query_lower, source_filter, entity_filter, min_confidence)

\* key(a) > key(b) for key = (relevance_score, confidence)
KeyGreater(a, b) ==
    LET ra == a.relevance_score.num * b.relevance_score.den
        rb == b.relevance_score.num * a.relevance_score.den
    IN \/ ra > rb
       \/ ra = rb /\ a.relationship.confidence > b.relationship.confidence

\* list.sort(key=..., reverse=True): descending and stable
RECURSIVE InsertDesc(_, _)
InsertDesc(sorted, x) ==
    IF sorted = <<>> THEN <<x>>
    ELSE IF KeyGreater(x, Head(sorted)) THEN <<x>> \o sorted
    ELSE <<Head(sorted)>> \o InsertDesc(Tail(sorted), x)

\* (variant: the hits stay in corpus order)
SortDesc_Unsorted(results) == results

RECURSIVE SortDesc(_)
SortDesc(results) ==
    IF results = <<>> THEN <<>>
    ELSE InsertDesc(SortDesc(SubSeq(results, 1, Len(results) - 1)), results[Len(results)])

SearchRelationships(rels, query, k, source_filter, entity_filter, min_confidence) ==
    IF rels = <<>> THEN <<>>
    ELSE Take(SortDesc(Collect(rels, Lower(query), source_filter, entity_filter,
                               min_confidence)), k)

(***************************************************************************)
(* VectorService.search: hits as SearchResult objects                      *)
(***************************************************************************)
\* filter[0] if filter else None
FirstOrNone(filter) == IF filter # <<>> THEN filter[1] ELSE <<>>

\* the descriptive content of a relationship (lines 56-72)
ContentOf(rel) ==
    LET c1 == IF rel.source_entity # <<>> /\ rel.target_entity # <<>>
                 /\ rel.relationship_type # <<>>
              THEN << rel.source_entity \o <<" ">> \o rel.relationship_type
                      \o <<" ">> \o rel.target_entity \o <<".">> >>
              ELSE <<>>
        c2 == IF rel.evidence # <<>> THEN <<rel.evidence>> ELSE <<>>
        c3 == IF rel.temporal_context # <<>>
              THEN << <<"C","o","n","t","e","x","t",":"," ">> \o rel.temporal_context >>
              ELSE <<>>
    IN JoinSp(c1 \o c2 \o c3)

UnknownSrc == <<"U","n","k","n","o","w","n">>

\* f"{source_entity} - {target_entity} Relationship"
TitleOf(rel) ==
    rel.source_entity \o <<" ","-"," ">> \o rel.target_entity
      \o <<" ","R","e","l","a","t","i","o","n","s","h","i","p">>

\* SearchResult(...) of one hit (lines 77-95).  A relationship without a
\* source has the source 'Unknown'.  The store sets no author and none of the
\* enrichment keys of chunk_metadata (entity_attributions, positions,
\* paragraph_numbers, attribution_completeness); an optional int is <<>> for
\* None and <<n>> for n.
ToSearchResult(hit) ==
    LET rel == hit.relationship
    IN [content |-> ContentOf(rel),
        source_info |-> [source |-> IF rel.source = <<>> THEN UnknownSrc ELSE rel.source,
                         source_null |-> FALSE,
                         url |-> rel.url,
                         title |-> TitleOf(rel),
                         author |-> <<>>],
        similarity_score |-> hit.relevance_score,
        entities |-> <<rel.source_entity, rel.target_entity>>,
        chunk_metadata |-> [relationship_type |-> rel.relationship_type,
                            confidence |-> rel.confidence,
                            entity_attributions |-> <<>>,
                            chunk_start_position |-> <<>>,
                            chunk_end_position |-> <<>>,
                            paragraph_numbers |-> <<>>,
                            attribution_completeness |-> 0]]

VectorServiceSearch(rels, query, k, source_filter, entity_filter, min_confidence) ==
    LET search_results ==
            SearchRelationships(rels, query, k, FirstOrNone(source_filter),
                                FirstOrNone(entity_filter), min_confidence)
    IN [i \in DOMAIN search_results |-> ToSearchResult(search_results[i])]

(***************************************************************************)
(* IEEE-754 binary64 arithmetic of the attribution scores.                 *)
(* A non-negative double below 16 is held exactly as 6 limbs of 12 bits,   *)
(* least significant first, in units of 2^-68: limb i weighs               *)
(* 4096^(i-1) * 2^-68, so 1.0 is <<0,0,0,0,0,256>>.  Every double in       *)
(* [2^-15, 16) is a whole number of units.  An operation computes the      *)
(* exact result and rounds it to 53 significant bits, ties to even, as the *)
(* hardware does.                                                          *)
(***************************************************************************)
Limbs == 1..6

P2 == <<1, 2, 4, 8, 16, 32, 64, 128, 256, 512, 1024, 2048, 4096>>   \* P2[k+1] = 2^k

FZero == <<0, 0, 0, 0, 0, 0>>
F01   == <<0, 2458, 2457, 2457, 2457, 25>>    \* 0.1 = 0x1.999999999999ap-4
F02   == <<0, 820, 819, 819, 819, 51>>        \* 0.2 = 0x1.999999999999ap-3
F03   == <<0, 3276, 3276, 3276, 3276, 76>>    \* 0.3 = 0x1.3333333333333p-2
FOne  == <<0, 0, 0, 0, 0, 256>>               \* 1.0

\* the value of e once computed (e holds one value per choice of its bound
\* names); the operators below bind their arguments this way so that a limb
\* tuple is computed once however often it is read
TheOne(singleton) == CHOOSE v \in singleton : TRUE

\* the exact sum (carry into limb i: some lower limb overflows and every limb
\* between passes the carry on)
BitsAdd(a0, b0) ==
    TheOne({ LET carry(i) == \E j \in 1..(i - 1) :
                                /\ a[j] + b[j] >= 4096
                                /\ \A k \in (j + 1)..(i - 1) : a[k] + b[k] >= 4095
                 limb(i) == (a[i] + b[i] + (IF carry(i) THEN 1 ELSE 0)) % 4096
             IN <<limb(1), limb(2), limb(3), limb(4), limb(5), limb(6)>>
             : a \in {a0}, b \in {b0} })

\* bit i (1 = least significant) of a
BitAt(a, i) == (a[((i - 1) \div 12) + 1] \div P2[((i - 1) % 12) + 1]) % 2

\* index of the leading 1 bit, 0 for zero
TopBit(a) ==
    IF \A i \in Limbs : a[i] = 0 THEN 0
    ELSE LET t == CHOOSE i \in Limbs : a[i] # 0 /\ \A j \in (i + 1)..6 : a[j] = 0
             n == CHOOSE k \in 1..12 : P2[k] <= a[t] /\ a[t] < P2[k + 1]
         IN 12 * (t - 1) + n

\* round to 53 significant bits, ties to even; sticky = 1 when the exact value
\* has a non-zero part below the last unit
Round53(a0, sticky) ==
    TheOne({ IF cut <= 0 THEN a
             ELSE LET gl    == ((cut - 1) \div 12) + 1      \* limb of the guard bit
                      go    == (cut - 1) % 12              \* its offset in the limb
                      guard == BitAt(a, cut)
                      rest  == \/ sticky = 1
                               \/ a[gl] % P2[go + 1] # 0
                               \/ \E i \in 1..(gl - 1) : a[i] # 0
                      lsb   == BitAt(a, cut + 1)
                      tr(i) == IF i < gl THEN 0
                               ELSE IF i = gl THEN a[i] - (a[i] % P2[go + 2])
                               ELSE a[i]
                      trunc == <<tr(1), tr(2), tr(3), tr(4), tr(5), tr(6)>>
                      ul(i) == IF i = (cut \div 12) + 1 THEN P2[(cut % 12) + 1] ELSE 0
                      ulp   == <<ul(1), ul(2), ul(3), ul(4), ul(5), ul(6)>>
                  IN IF guard = 1 /\ (rest \/ lsb = 1) THEN BitsAdd(trunc, ulp) ELSE trunc
             : a \in {a0}, cut \in {TopBit(a0) - 53} })

\* a + b on doubles
FAdd(a, b) == Round53(BitsAdd(a, b), 0)

\* a / n on doubles, n a positive int: long division from the top limb down
FDivInt(a0, n) ==
    TheOne({ LET r6 == a[6] % n
                 r5 == (r6 * 4096 + a[5]) % n
                 r4 == (r5 * 4096 + a[4]) % n
                 r3 == (r4 * 4096 + a[3]) % n
                 r2 == (r3 * 4096 + a[2]) % n
                 r1 == (r2 * 4096 + a[1]) % n
                 q  == << (r2 * 4096 + a[1]) \div n, (r3 * 4096 + a[2]) \div n,
                          (r4 * 4096 + a[3]) \div n, (r5 * 4096 + a[4]) \div n,
                          (r6 * 4096 + a[5]) \div n, a[6] \div n >>
             IN Round53(q, IF r1 # 0 THEN 1 ELSE 0)
             : a \in {a0} })

\* a > b on doubles
FGt(a0, b0) ==
    \E a \in {a0}, b \in {b0} :
        \E i \in Limbs : a[i] > b[i] /\ \A j \in (i + 1)..6 : a[j] = b[j]

\* sum(xs): 0 + xs[1] + xs[2] + ..., left to right
FSum(xs) ==
    LET S[i \in 0..Len(xs)] == IF i = 0 THEN FZero ELSE FAdd(S[i - 1], xs[i])
    IN S[Len(xs)]

(***************************************************************************)
(* ut-query-service: source attributions                                   *)
(***************************************************************************)
\* an optional int is truthy: not None and not 0
TruthyInt(x) == x # <<>> /\ x[1] # 0

\* a source_info value formatted in an f-string (None prints as 'None')
FmtOpt(x) == IF x = <<>> THEN <<"N","o","n","e">> ELSE x

\* content[:200] + "..." if len(content) > 200 else content
Excerpt200(content) ==
    IF Len(content) > 200 THEN Take(content, 200) \o Ellipsis ELSE content

\* QueryProcessor._generate_basic_citation
generate_basic_citation(source_info, evidence_text) ==
    LET author  == FmtOpt(source_info.author)
        title   == Take(source_info.title, 50)
                     \o (IF Len(source_info.title) > 50 THEN Ellipsis ELSE <<>>)
        source  == IF source_info.source_null THEN FmtOpt(<<>>) ELSE source_info.source
        excerpt == Take(evidence_text, 50)
                     \o (IF Len(evidence_text) > 50 THEN Ellipsis ELSE <<>>)
    IN <<"\"">> \o excerpt \o <<"\""," ","f","r","o","m"," ">> \o title
         \o <<" ","b","y"," ">> \o author \o <<","," ">> \o source

\* result.entities[0] if result.entities else None
PrimaryArtist(result) == IF result.entities # <<>> THEN result.entities[1] ELSE <<>>

\* QueryProcessor._extract_source_attributions: one SourceAttribution per hit
SourceAttributionOf(result) ==
    [source            |-> result.source_info.source,
     artist            |-> PrimaryArtist(result),
     confidence        |-> result.similarity_score,
     excerpt           |-> Excerpt200(result.content),
     url               |-> result.source_info.url,
     relationship_type |-> result.chunk_metadata.relationship_type]

extract_source_attributions(search_results) ==
    [i \in DOMAIN search_results |-> SourceAttributionOf(search_results[i])]

\* QueryProcessor._create_enhanced_attribution_from_entity_data
create_enhanced_attribution_from_entity_data(entity_attr, source_info, result) ==
    LET chunk_metadata == result.chunk_metadata
        paragraph_nums == chunk_metadata.paragraph_numbers
    IN [source             |-> source_info.source,
        artist             |-> entity_attr.entity,
        confidence         |-> [num |-> entity_attr.confidence, den |-> 100],
        evidence_text      |-> entity_attr.evidence,
        evidence_type      |-> "contextual",
        start_position     |-> chunk_metadata.chunk_start_position,
        end_position       |-> chunk_metadata.chunk_end_position,
        paragraph_number   |-> IF paragraph_nums # <<>> THEN <<paragraph_nums[1]>> ELSE <<>>,
        url                |-> source_info.url,
        citation           |-> entity_attr.citation,
        source_credibility |-> chunk_metadata.attribution_completeness,
        relationship_type  |-> chunk_metadata.relationship_type]

\* QueryProcessor._create_enhanced_attribution_from_legacy
create_enhanced_attribution_from_legacy(result) ==
    LET evidence_text == Excerpt200(result.content)
    IN [source             |-> result.source_info.source,
        artist             |-> PrimaryArtist(result),
        confidence         |-> result.similarity_score,
        evidence_text      |-> evidence_text,
        evidence_type      |-> "contextual",
        start_position     |-> <<>>,
        end_position       |-> <<>>,
        paragraph_number   |-> <<>>,
        url                |-> result.source_info.url,
        citation           |-> generate_basic_citation(result.source_info, evidence_text),
        source_credibility |-> 0,
        relationship_type  |-> result.chunk_metadata.relationship_type]

\* (variant: a hit with entity attributions gives one attribution, its first)
AttributionsOfHit_FirstEntity(result) ==
    LET entity_attributions == result.chunk_metadata.entity_attributions
    IN IF entity_attributions # <<>>
       THEN << create_enhanced_attribution_from_entity_data(
                   entity_attributions[1], result.source_info, result) >>
       ELSE << create_enhanced_attribution_from_legacy(result) >>

\* the attributions of one hit (lines 210-227)
AttributionsOfHit(result) ==
    LET entity_attributions == result.chunk_metadata.entity_attributions
    IN IF entity_attributions # <<>>
       THEN [j \in DOMAIN entity_attributions |->
                create_enhanced_attribution_from_entity_data(
                    entity_attributions[j], result.source_info, result)]
       ELSE << create_enhanced_attribution_from_legacy(result) >>

\* QueryProcessor._extract_enhanced_source_attributions
RECURSIVE extract_enhanced_source_attributions(_)
extract_enhanced_source_attributions(search_results) ==
    IF search_results = <<>> THEN <<>>
    ELSE AttributionsOfHit(Head(search_results))
           \o extract_enhanced_source_attributions(Tail(search_results))

\* building an attribution raises (pydantic: source must be a str) when a hit
\* carries a null source
AttributionRaises(search_results) ==
    \E i \in DOMAIN search_results : search_results[i].source_info.source_null

(***************************************************************************)
(* QueryProcessor._calculate_attribution_quality_metrics                   *)
(***************************************************************************)
\* confidence > 0.7 for the confidence num/den
ConfidenceAbove07(c) == 10 * c.num > 7 * c.den

\* the additions made to score, in the order of the code (lines 399-409)
ScoreTerms(attr) ==
    (IF attr.evidence_text # <<>> /\ Len(attr.evidence_text) > 10 THEN <<F03>> ELSE <<>>)
    \o (IF attr.url # <<>> THEN <<F02>> ELSE <<>>)
    \o (IF attr.citation # <<>> THEN <<F02>> ELSE <<>>)
    \o (IF \/ TruthyInt(attr.paragraph_number)
           \/ (TruthyInt(attr.start_position) /\ TruthyInt(attr.end_position))
        THEN <<F02>> ELSE <<>>)
    \o (IF ConfidenceAbove07(attr.confidence) THEN <<F01>> ELSE <<>>)

AttributionScore(attr) == FSum(ScoreTerms(attr))

\* (variant: only a citation makes an attribution citation-ready)
CitationReady_CitationOnly(attr) == attr.citation # <<>>

\* attr.citation or (attr.url and attr.source and attr.evidence_text)
CitationReady(attr) ==
    \/ attr.citation # <<>>
    \/ (attr.url # <<>> /\ attr.source # <<>> /\ attr.evidence_text # <<>>)

calculate_attribution_quality_metrics(attributions) ==
    IF attributions = <<>>
    THEN [attribution_quality       |-> FZero,
          citation_readiness        |-> [num |-> 0, den |-> 1],
          source_verification_score |-> [num |-> 0, den |-> 1]]
    ELSE LET attribution_scores ==
                 [i \in DOMAIN attributions |-> AttributionScore(attributions[i])]
             citation_ready ==
                 Cardinality({i \in DOMAIN attributions : CitationReady(attributions[i])})
             verified_sources ==
                 Cardinality({i \in DOMAIN attributions : attributions[i].url # <<>>})
         IN [attribution_quality       |-> FDivInt(FSum(attribution_scores),
                                                   Len(attributions)),
             citation_readiness        |-> [num |-> citation_ready,
                                            den |-> Len(attributions)],
             source_verification_score |-> [num |-> verified_sources,
                                            den |-> Len(attributions)]]

(***************************************************************************)
(* Response texts.  A response text is a sequence whose elements are the    *)
(* characters of the interpolated values and, for each fixed fragment of    *)
(* the template, one string holding the fragment (shortened).               *)
(***************************************************************************)
DigitChars == <<"0","1","2","3","4","5","6","7","8","9">>

\* str(n) for n >= 0
RECURSIVE FmtInt(_)
FmtInt(n) ==
    IF n < 10 THEN <<DigitChars[n + 1]>>
    ELSE FmtInt(n \div 10) \o <<DigitChars[(n % 10) + 1]>>

\* f"{n:,}" for n < 1000000
FmtThousands(n) ==
    IF n < 1000 THEN FmtInt(n)
    ELSE LET low == n % 1000
         IN FmtInt(n \div 1000)
              \o <<",", DigitChars[(low \div 100) + 1], DigitChars[((low \div 10) % 10) + 1],
                   DigitChars[(low % 10) + 1]>>

\* f"{score:.2f}" for the score num/den in [0, 1] (no den below 8 gives a tie)
Fmt2f(score) ==
    LET hundredths == (200 * score.num + score.den) \div (2 * score.den)
    IN FmtInt(hundredths \div 100)
         \o <<".", DigitChars[((hundredths \div 10) % 10) + 1],
              DigitChars[(hundredths % 10) + 1]>>

\* content[:150] + "..." if len(content) > 150 else content
Excerpt150(content) ==
    IF Len(content) > 150 THEN Take(content, 150) \o Ellipsis ELSE content

\* the source of a hit formatted in a text
SourceLabel(result) ==
    IF result.source_info.source_null THEN FmtOpt(<<>>) ELSE result.source_info.source

\* QueryProcessor._build_fallback_text: the entry of hit i (lines 336-346)
FallbackEntry(i, result) ==
    <<"**">> \o FmtInt(i) \o <<". From ">> \o SourceLabel(result) \o <<" (">>
      \o Fmt2f(result.similarity_score) \o <<" relevance):**", "\n">>
      \o Excerpt150(result.content) \o <<"\n">>
      \o (IF result.source_info.url # <<>>
          THEN <<"[Read full article](">> \o result.source_info.url \o <<")", "\n">>
          ELSE <<>>)
      \o <<"\n">>

RECURSIVE FallbackEntries(_, _)
FallbackEntries(i, results) ==
    IF results = <<>> THEN <<>>
    ELSE FallbackEntry(i, Head(results)) \o FallbackEntries(i + 1, Tail(results))

\* QueryProcessor._build_fallback_text
build_fallback_text(query, search_results) ==
    <<"Based on your query \"">> \o query \o <<"\", I found ">>
      \o FmtInt(Len(search_results)) \o <<" relevant connections", "\n", "\n">>
      \o FallbackEntries(1, Take(search_results, 3))
      \o (IF Len(search_results) > 3
          THEN <<"*Plus ">> \o FmtInt(Len(search_results) - 3)
                 \o <<" additional connections available*", "\n", "\n">>
          ELSE <<>>)
      \o <<"**Note:** The Cultural Cartographer is temporarily unavailable">>

\* (variant: the text does not quote the query)
EmptyText_NoQuery(query, total_relationships) ==
    <<"I couldn't find specific information in our current knowledge graph.",
      "Our knowledge graph contains ">>
      \o FmtThousands(total_relationships) \o <<" relationships.">>

\* the text of QueryProcessor._create_empty_response (lines 362-368)
EmptyText(query, total_relationships) ==
    <<"I couldn't find specific information about \"">> \o query
      \o <<"\" in our current knowledge graph.", "Our knowledge graph contains ">>
      \o FmtThousands(total_relationships) \o <<" relationships.">>

(***************************************************************************)
(* CulturalCartographer                                                    *)
(***************************************************************************)
\* CulturalCartographer._generate_fallback_response: the entry of hit i
CartographerEntry(i, result) ==
    <<"**">> \o FmtInt(i) \o <<". From ">> \o SourceLabel(result) \o <<":**", "\n">>
      \o Excerpt150(result.content) \o <<"\n">>
      \o (IF result.source_info.url # <<>>
          THEN <<"[Read more](">> \o result.source_info.url \o <<")", "\n">>
          ELSE <<>>)
      \o <<"\n">>

RECURSIVE CartographerEntries(_, _)
CartographerEntries(i, results) ==
    IF results = <<>> THEN <<>>
    ELSE CartographerEntry(i, Head(results)) \o CartographerEntries(i + 1, Tail(results))

\* CulturalCartographer._generate_fallback_response
generate_fallback_response(query, search_results) ==
    IF search_results = <<>>
    THEN <<"I couldn't find specific information about \"">> \o query
           \o <<"\" in our knowledge graph at the moment">>
    ELSE <<"Based on ">> \o FmtInt(Len(search_results))
           \o <<" connections in our enhanced knowledge graph:", "\n", "\n">>
           \o CartographerEntries(1, Take(search_results, 3))
           \o <<"**Note:** Cultural Cartographer synthesis is temporarily unavailable.">>

\* the distinct sources of the hits, in order of first appearance
RECURSIVE DistinctSources(_, _)
DistinctSources(results, seen) ==
    IF results = <<>> THEN seen
    ELSE LET name == Head(results).source_info.source
         IN DistinctSources(Tail(results),
                            IF \E i \in DOMAIN seen : seen[i] = name
                            THEN seen ELSE Append(seen, name))

\* ' | '.join(parts)
RECURSIVE JoinBar(_)
JoinBar(parts) ==
    IF parts = <<>> THEN <<>>
    ELSE IF Len(parts) = 1 THEN parts[1]
    ELSE parts[1] \o <<" ","|"," ">> \o JoinBar(Tail(parts))

\* str.replace(sub, ''): every occurrence of sub is removed, left to right
RECURSIVE RemoveAll(_, _)
RemoveAll(s, sub) ==
    IF Len(s) < Len(sub) \/ sub = <<>> THEN s
    ELSE IF SubSeq(s, 1, Len(sub)) = sub
         THEN RemoveAll(SubSeq(s, Len(sub) + 1, Len(s)), sub)
         ELSE <<Head(s)>> \o RemoveAll(Tail(s), sub)

\* str.strip()
RECURSIVE Strip(_)
Strip(s) ==
    IF s = <<>> THEN s
    ELSE IF IsSpace(Head(s)) THEN Strip(Tail(s))
    ELSE IF IsSpace(s[Len(s)]) THEN Strip(SubSeq(s, 1, Len(s) - 1))
    ELSE s

\* ', '.join(parts)
RECURSIVE JoinComma(_)
JoinComma(parts) ==
    IF parts = <<>> THEN <<>>
    ELSE IF Len(parts) = 1 THEN parts[1]
    ELSE parts[1] \o <<","," ">> \o JoinComma(Tail(parts))

\* 'influence' in query.lower()  (line 240)
Influence == <<"i","n","f","l","u","e","n","c","e">>
AsksInfluence(query) == Contains(Lower(query), Influence)

\* the artist named by an influence query (line 242)
ArtistName(query) ==
    Strip(RemoveAll(RemoveAll(RemoveAll(query, <<"w","h","o"," ","i","n","f","l","u","e","n","c","e","d">>),
                              <<"i","n","f","l","u","e","n","c","e","s">>), <<"?">>))

\* CulturalCartographer._generate_mock_response: the reading of the top 5
\* hits raises on a null source (a str test on None)
MockRaises(search_results) ==
    \E i \in DOMAIN search_results : i <= 5 /\ search_results[i].source_info.source_null

\* the influence reply (lines 240-271) and the exploratory reply (lines
\* 273-307), each with its query or artist, its counts and its source names
generate_mock_response(query, search_results, total_relationships) ==
    LET sources == DistinctSources(Take(search_results, 5), <<>>)
    IN IF AsksInfluence(query)
       THEN <<"After analyzing ">> \o ArtistName(query)
              \o <<"'s cultural footprint, based on our ">>
              \o FmtThousands(total_relationships) \o <<" documented relationships", "\n">>
              \o <<"These connections appear across ">> \o FmtInt(Len(sources))
              \o <<" different sources including ">> \o JoinComma(Take(sources, 2))
              \o <<"\n", "**Key sources**: ">> \o JoinComma(Take(sources, 3))
              \o <<"\n", "**Total connections found**: ">> \o FmtInt(Len(search_results))
       ELSE <<"Based on \"">> \o query \o <<"\", our analysis of ">>
              \o FmtThousands(total_relationships)
              \o <<" documented relationships reveals ">>
              \o FmtInt(Len(search_results)) \o <<" significant connections", "\n">>
              \o JoinBar(Take(DistinctSources(Take(search_results, 5), <<>>), 3))
              \o <<"\n", "### Recommendations">>

\* the outcomes of bedrock_client.invoke_model and of reading its reply
LLMOutcomes == {"text", "no_content", "throttled", "client_error", "error"}

\* the text generated by the language model (opaque)
GeneratedText == <<"<generated_text>">>

\* CulturalCartographer.generate_response with use_mock false (lines 96-144):
\* every failure of the call is answered with the fallback text
generate_live_response(query, search_results, outcome) ==
    IF outcome = "text" THEN GeneratedText
    ELSE generate_fallback_response(query, search_results)

(***************************************************************************)
(* QueryProcessor: responses                                               *)
(***************************************************************************)
\* len(set(attr.source for attr in attributions))
SourcesCount(attributions) ==
    Cardinality({attributions[i].source : i \in DOMAIN attributions})

(***************************************************************************)
(* Discovery pathways.  A pathway is a text like the response texts.  The  *)
(* order in which Python iterates a set is not fixed by the program: order *)
(* names the elements that come first, in that order; the elements it does *)
(* not name follow.                                                        *)
(***************************************************************************)
RECURSIVE SetToSeq(_)
SetToSeq(S) ==
    IF S = {} THEN <<>>
    ELSE LET x == CHOOSE y \in S : TRUE IN <<x>> \o SetToSeq(S \ {x})

\* list(S) under the iteration order
ListOfSet(S, order) ==
    LET named == {order[i] : i \in DOMAIN order}
        first == [i \in DOMAIN order |-> IF order[i] \in S THEN <<order[i]>> ELSE <<>>]
        Flat[i \in 0..Len(order)] == IF i = 0 THEN <<>> ELSE Flat[i - 1] \o first[i]
    IN  Flat[Len(order)] \o SetToSeq(S \ named)

\* the iteration order drawn where no property reads the pathways
SetOrders == { <<>> }

\* confidence > 0.8 for the confidence num/den
ConfidenceAbove08(c) == 10 * c.num > 8 * c.den

CitablePathway == <<"Find more academically citable sources">>

\* the discovery_pathways of _create_empty_response (lines 374-378)
EmptyPathways ==
    << <<"Try searching for mainstream artists">>,
       <<"Explore genre-based queries">>,
       <<"Ask about musical influences or collaborations">> >>

\* (variant: one entity is enough for the templated suggestions)
TemplatedPathways_FromOne(entity_list) ==
    IF Len(entity_list) >= 1
    THEN << <<"Explore connections between ">> \o entity_list[1]
                \o <<" and ">> \o entity_list[Len(entity_list)],
            <<"Discover who influenced ">> \o entity_list[1],
            <<"Find artists similar to ">> \o entity_list[1] >>
    ELSE <<>>

\* the templated suggestions of _extract_discovery_pathways (lines 311-316)
TemplatedPathways(entity_list) ==
    IF Len(entity_list) >= 2
    THEN << <<"Explore connections between ">> \o entity_list[1]
                \o <<" and ">> \o entity_list[2],
            <<"Discover who influenced ">> \o entity_list[1],
            <<"Find artists similar to ">> \o entity_list[1] >>
    ELSE <<>>

\* QueryProcessor._extract_discovery_pathways
extract_discovery_pathways(search_results, order) ==
    LET all_entities == UNION { {search_results[i].entities[j] :
                                    j \in DOMAIN search_results[i].entities} :
                                i \in DOMAIN search_results }
        entity_list == Take(ListOfSet(all_entities, order), 10)
        templated == TemplatedPathways(entity_list)
        relationship_types ==
            { search_results[i].chunk_metadata.relationship_type :
                i \in {j \in DOMAIN search_results :
                          search_results[j].chunk_metadata.relationship_type # <<>>} }
        type_list == Take(ListOfSet(relationship_types, order), 2)
        typed == [i \in DOMAIN type_list |->
                     <<"Explore more ">> \o type_list[i] \o <<" relationships">>]
    IN  Take(templated \o typed, 5)

\* the citation-ready pathway (lines 485-488)
CitableSuggestion(enhanced_attributions) ==
    IF Cardinality({i \in DOMAIN enhanced_attributions :
                       enhanced_attributions[i].citation # <<>>}) > 2
    THEN <<CitablePathway>> ELSE <<>>

\* QueryProcessor._extract_enhanced_discovery_pathways
extract_enhanced_discovery_pathways(enhanced_attributions, order) ==
    LET HighQuality(attr) == attr.artist # <<>> /\ ConfidenceAbove08(attr.confidence)
        high_quality == SelectSeq(enhanced_attributions, HighQuality)
        templated ==
            IF Len(high_quality) >= 2
            THEN << <<"Explore verified connections between ">> \o high_quality[1].artist
                        \o <<" and ">> \o high_quality[2].artist,
                    <<"Find well-documented influences on ">> \o high_quality[1].artist,
                    <<"Discover cited collaborations of ">> \o high_quality[1].artist >>
            ELSE <<>>
        HighCredibility(attr) == attr.source_credibility > 80
        high_credibility == Take(SelectSeq(enhanced_attributions, HighCredibility), 2)
        source_list == ListOfSet({high_credibility[i].source : i \in DOMAIN high_credibility},
                                 order)
        sourced == [i \in DOMAIN source_list |->
                       <<"Explore more insights from ">> \o source_list[i]]
    IN  Take(templated \o sourced \o CitableSuggestion(enhanced_attributions), 5)

NoMetrics == calculate_attribution_quality_metrics(<<>>)

\* a QueryResponse / EnhancedQueryResponse returned to the caller
Response(mode, text, sources, n_results, n_sources, metrics, pathways) ==
    [raised   |-> FALSE,
     mode     |-> mode,
     response |-> text,
     sources  |-> sources,
     discovery_pathways |-> pathways,
     stats    |-> [search_results_count |-> n_results, sources_count |-> n_sources],
     attribution_quality       |-> metrics.attribution_quality,
     citation_readiness        |-> metrics.citation_readiness,
     source_verification_score |-> metrics.source_verification_score]

\* an exception leaving the function instead of a response
Exception ==
    [raised |-> TRUE, mode |-> "", response |-> <<>>, sources |-> <<>>,
     discovery_pathways |-> <<>>,
     stats |-> [search_results_count |-> 0, sources_count |-> 0],
     attribution_quality       |-> NoMetrics.attribution_quality,
     citation_readiness        |-> NoMetrics.citation_readiness,
     source_verification_score |-> NoMetrics.source_verification_score]

\* QueryProcessor._create_empty_response; summary is self.data_summary, <<>>
\* for None (None.get raises)
create_empty_response(query, summary) ==
    IF summary = <<>> THEN Exception
    ELSE Response("empty", EmptyText(query, summary.total_relationships), <<>>, 0, 0,
                  NoMetrics, EmptyPathways)

\* QueryProcessor._create_enhanced_response
create_enhanced_response(cultural_response, enhanced_attributions, search_results, quality_metrics, order) ==
    Response("enhanced", cultural_response, enhanced_attributions, Len(search_results),
             Len(enhanced_attributions), quality_metrics,
             extract_enhanced_discovery_pathways(enhanced_attributions, order))

\* (variant: the quality gate admits 0.3 itself)
process_query_response_AtLeast(cultural_response, search_results, order) ==
    IF AttributionRaises(search_results) THEN Exception
    ELSE LET enhanced_attributions == extract_enhanced_source_attributions(search_results)
             quality_metrics ==
                 calculate_attribution_quality_metrics(enhanced_attributions)
         IN IF ~FGt(F03, quality_metrics.attribution_quality)
            THEN create_enhanced_response(cultural_response, enhanced_attributions,
                                          search_results, quality_metrics, order)
            ELSE LET source_attributions == extract_source_attributions(search_results)
                 IN Response("full", cultural_response, source_attributions,
                             Len(search_results), SourcesCount(source_attributions),
                             NoMetrics, extract_discovery_pathways(search_results, order))

\* process_query, steps 4 to 6 (lines 99-132): the attributions, the quality
\* gate and the response
process_query_response(cultural_response, search_results, order) ==
    IF AttributionRaises(search_results) THEN Exception
    ELSE LET enhanced_attributions == extract_enhanced_source_attributions(search_results)
             quality_metrics ==
                 calculate_attribution_quality_metrics(enhanced_attributions)
         IN IF FGt(quality_metrics.attribution_quality, F03)
            THEN create_enhanced_response(cultural_response, enhanced_attributions,
                                          search_results, quality_metrics, order)
            ELSE LET source_attributions == extract_source_attributions(search_results)
                 IN Response("full", cultural_response, source_attributions,
                             Len(search_results), SourcesCount(source_attributions),
                             NoMetrics, extract_discovery_pathways(search_results, order))

\* (variant: the exception of the fallback leaves the function)
fallback_response_except_Reraise(query, summary) == Exception

\* fallback_response, the except branch (lines 172-174)
fallback_response_except(query, summary) == create_empty_response(query, summary)

\* (variant: the hits of the primary search are reused)
fallback_response_try_Cached(query, search_results, summary) ==
    IF primary_results = <<>> THEN create_empty_response(query, summary)
    ELSE IF AttributionRaises(primary_results) THEN Exception
    ELSE LET source_attributions == extract_source_attributions(primary_results)
         IN Response("fallback", build_fallback_text(query, primary_results),
                     source_attributions, Len(primary_results),
                     SourcesCount(source_attributions), NoMetrics, <<>>)

\* fallback_response, the try block after the search (lines 147-170)
fallback_response_try(query, search_results, summary) ==
    IF search_results = <<>> THEN create_empty_response(query, summary)
    ELSE IF AttributionRaises(search_results) THEN Exception
    ELSE LET source_attributions == extract_source_attributions(search_results)
         IN Response("fallback", build_fallback_text(query, search_results),
                     source_attributions, Len(search_results),
                     SourcesCount(source_attributions), NoMetrics, <<>>)

\* (variant: no except branch)
fallback_response_result_NoCatch(query, search_results, summary) ==
    fallback_response_try(query, search_results, summary)

\* QueryProcessor.fallback_response on the hits of its own search
fallback_response_result(query, search_results, summary) ==
    LET r == fallback_response_try(query, search_results, summary)
    IN IF r.raised THEN fallback_response_except(query, summary) ELSE r

(***************************************************************************)
(* Search backends of the query service: the vector store above, or a      *)
(* stand-in serving canned enriched hits behind the same /search contract.  *)
(***************************************************************************)
MaxStubHits == 2     \* longest canned hit list

EntityAttr(entity, evidence, confidence, citation) ==
    [entity |-> entity, evidence |-> evidence, confidence |-> confidence,
     citation |-> citation]

StubHit(src, src_null, url, entities, rel_type, attrs, start, end, paragraphs, compl) ==
    [content |-> ContentOf(RelA80),
     source_info |-> [source |-> src, source_null |-> src_null, url |-> url,
                      title |-> <<"T">>, author |-> <<"A","n","n">>],
     similarity_score |-> [num |-> 1, den |-> 1],
     entities |-> entities,
     chunk_metadata |-> [relationship_type |-> rel_type, confidence |-> 90,
                         entity_attributions |-> attrs,
                         chunk_start_position |-> start,
                         chunk_end_position |-> end,
                         paragraph_numbers |-> paragraphs,
                         attribution_completeness |-> compl]]

\* every feature present: evidence over 10 characters, url, citation,
\* paragraph number, confidence 0.9
HitComplete ==
    StubHit(NPR, FALSE, Url1, <<Bob, Woo>>, Infl,
            << EntityAttr(Bob, RelA80.evidence, 90, <<"N","P","R"," ","2","0">>) >>,
            <<>>, <<>>, <<3>>, 90)
\* every optional field absent, no evidence, confidence 0.5
HitBare ==
    StubHit(Pfk, FALSE, <<>>, <<>>, <<>>,
            << EntityAttr(<<>>, <<>>, 50, <<>>) >>, <<>>, <<>>, <<>>, 0)
\* every optional field absent, no evidence, confidence 0.9
HitBareSure ==
    StubHit(Pfk, FALSE, <<>>, <<>>, <<>>,
            << EntityAttr(<<>>, <<>>, 90, <<>>) >>, <<>>, <<>>, <<>>, 0)
\* url and confidence 0.8 only; positions 0..5 and a short evidence
HitUrlOnly ==
    StubHit(NPR, FALSE, Url1, <<Woo>>, Infl,
            << EntityAttr(Woo, RelC05.evidence, 80, <<>>) >>, <<0>>, <<5>>, <<>>, 0)
\* every optional field absent, evidence over 10 characters, confidence 0.5
HitEvidenceOnly ==
    StubHit(Pfk, FALSE, <<>>, <<>>, <<>>,
            << EntityAttr(<<>>, RelA80.evidence, 50, <<>>) >>, <<>>, <<>>, <<>>, 0)
\* a hit whose source_info.source is null
HitNullSource ==
    StubHit(<<>>, TRUE, <<>>, <<Nina>>, Infl, <<>>, <<>>, <<>>, <<>>, 0)

StubPool == {HitComplete, HitBare, HitBareSure, HitUrlOnly, HitEvidenceOnly,
             HitNullSource}
StubLists == SeqsUpTo(StubPool, MaxStubHits)

PipelinePool == {RelA80, RelB90, RelD50}
PipelineCorpora == SeqsUpTo(PipelinePool, MaxCorpus)

(***************************************************************************)
(* POST /search of the vector store                                        *)
(***************************************************************************)
SearchQueries ==
    { <<"B","o","b"," ","i","n","f","l">>,
      <<"w","o","o"," ","j","a","z","z">>,
      <<"n","p","r">>,
      <<"z","z","z">>,
      <<"b","o","b"," "," ","B","O","B"," ","n","i","n","a">> }
SearchKs == {1, 2, 10}
SourceFilters == { <<>>, << <<"n","p","r">> >>, << <<"P","F","K">>, <<"n","p","r">> >> }
EntityFilters == { <<>>, << <<"b","o","b">> >>, << <<"N","I","N","A">>, <<"w","o","o">> >> }
MinConfidences == {0, 10, 95}

NoSearch == [request |-> <<>>, hits |-> <<>>, results |-> <<>>]

\* (each behaviour serves one search: the endpoint keeps no state between calls)
semantic_search(query, k, source_filter, entity_filter, min_confidence) ==
    /\ searchLog = NoSearch
    /\ searchLog' =
          [request |-> [query |-> query, k |-> k, source_filter |-> source_filter,
                        entity_filter |-> entity_filter,
                        min_confidence |-> min_confidence],
           hits |-> SearchRelationships(relationships, query, k,
                                        FirstOrNone(source_filter),
                                        FirstOrNone(entity_filter), min_confidence),
           results |-> VectorServiceSearch(relationships, query, k, source_filter,
                                           entity_filter, min_confidence)]
    /\ UNCHANGED <<relationships, backend, synthesizer, data_summary, pc, request,
                   primary_results, synthesis, response, log>>
    /\ UNCHANGED extraVars

(***************************************************************************)
(* The query service                                                       *)
(***************************************************************************)
PipelineQueries ==
    { <<"B","o","b"," ","i","n","f","l">>,
      <<"w","o","o"," ","j","a","z","z">>,
      <<"z","z","z">> }
RequestKs == {1, 12}
RequestSourceFilters == { <<>>, << <<"n","p","r">> >> }
RequestEntityFilters == { <<>>, << <<"N","I","N","A">> >> }

\* how a call of the search backend ends
BackendOutcomes == {"ok", "http_error", "timeout"}

Synthesizers == {"mock", "bedrock", "throwing"}

StoreBackend == [kind |-> "store", hits |-> <<>>]

NoRequest == [query |-> <<>>, k |-> 0, source_filter |-> <<>>, entity_filter |-> <<>>]
NoResponse == [Exception EXCEPT !.raised = FALSE, !.mode = "none"]
NoLog == [searches |-> <<>>, fallback_results |-> <<>>, synth |-> "none",
          llm |-> <<>>, respond |-> "none", entered_fallback |-> FALSE]

\* the answer of the backend to POST /search
BackendSearch(query, k, source_filter, entity_filter, min_confidence) ==
    IF backend.kind = "store"
    THEN VectorServiceSearch(relationships, query, k, source_filter, entity_filter,
                             min_confidence)
    ELSE Take(backend.hits, k)

\* VectorStoreClient.search: a non-200 status and any exception give []
ClientSearch(query, k, source_filter, entity_filter, min_confidence, outcome) ==
    IF outcome = "ok"
    THEN BackendSearch(query, k, source_filter, entity_filter, min_confidence)
    ELSE <<>>

SearchSent(query, k, source_filter, entity_filter, min_confidence, outcome) ==
    [query |-> query, k |-> k, source_filter |-> source_filter,
     entity_filter |-> entity_filter, min_confidence |-> min_confidence,
     outcome |-> outcome]

\* (variant: the requested k is sent as it is)
ActualK_AsRequested(k) == k

\* max(k, 10)
ActualK(k) == IF k > 10 THEN k ELSE 10

\* QueryProcessor.initialize, run by the startup hook before any request
initialize(stats_ok) ==
    /\ pc = "constructed"
    /\ data_summary' =
          [total_relationships |->
              IF backend.kind = "store" /\ stats_ok
              THEN (IF relationships # <<>> THEN Len(relationships) ELSE 100)
              ELSE 2787]
    /\ pc' = "ready"
    /\ UNCHANGED <<relationships, searchLog, backend, synthesizer, request,
                   primary_results, synthesis, response, log>>
    /\ UNCHANGED extraVars

\* process_query, step 1 (lines 73-86): the primary search; no hit ends the
\* request with the empty response
process_query_search(query, k, source_filter, entity_filter, outcome) ==
    /\ pc = "ready"
    /\ LET hits == ClientSearch(query, ActualK(k), source_filter, entity_filter, 10,
                                outcome)
           empty == create_empty_response(query, data_summary)
       IN /\ request' = [query |-> query, k |-> k, source_filter |-> source_filter,
                         entity_filter |-> entity_filter]
          /\ primary_results' = hits
          /\ log' = [log EXCEPT !.searches =
                        Append(@, SearchSent(query, ActualK(k), source_filter,
                                             entity_filter, 10, outcome))]
          /\ IF hits # <<>> THEN pc' = "synthesizing" /\ UNCHANGED response
             ELSE IF empty.raised THEN pc' = "failed" /\ UNCHANGED response
             ELSE pc' = "done" /\ response' = empty
    /\ UNCHANGED <<relationships, searchLog, backend, synthesizer, data_summary,
                   synthesis>>
    /\ UNCHANGED extraVars

\* (variant: a failed language-model call is made a second time)
process_query_synthesize_Retry(outcome) ==
    /\ pc = "synthesizing"
    /\ LET raises == \/ data_summary = <<>>
                     \/ synthesizer = "throwing"
                     \/ synthesizer = "mock" /\ MockRaises(primary_results)
           again == /\ ~raises /\ synthesizer = "bedrock"
                    /\ outcome # "text" /\ log.llm = <<>>
       IN /\ log' = [log EXCEPT
                        !.synth = IF data_summary = <<>> \/ again THEN "none"
                                  ELSE IF raises THEN "raised" ELSE "returned",
                        !.llm = IF data_summary # <<>> /\ synthesizer = "bedrock"
                                THEN Append(@, outcome) ELSE @]
          /\ IF raises
             THEN pc' = "failed" /\ UNCHANGED synthesis
             ELSE IF again
             THEN pc' = "synthesizing" /\ UNCHANGED synthesis
             ELSE /\ pc' = "scoring"
                  /\ synthesis' =
                        IF synthesizer = "mock"
                        THEN generate_mock_response(request.query, primary_results,
                                                    data_summary.total_relationships)
                        ELSE generate_live_response(request.query, primary_results,
                                                    outcome)
    /\ UNCHANGED <<relationships, searchLog, backend, synthesizer, data_summary,
                   request, primary_results, response>>
    /\ UNCHANGED extraVars

\* process_query, steps 2 and 3 (lines 88-97): the synthesizer is invoked
process_query_synthesize(outcome) ==
    /\ pc = "synthesizing"
    /\ LET raises == \/ data_summary = <<>>
                     \/ synthesizer = "throwing"
                     \/ synthesizer = "mock" /\ MockRaises(primary_results)
       IN /\ log' = [log EXCEPT
                        !.synth = IF data_summary = <<>> THEN "none"
                                  ELSE IF raises THEN "raised" ELSE "returned",
                        !.llm = IF data_summary # <<>> /\ synthesizer = "bedrock"
                                THEN Append(@, outcome) ELSE @]
          /\ IF raises
             THEN pc' = "failed" /\ UNCHANGED synthesis
             ELSE /\ pc' = "scoring"
                  /\ synthesis' =
                        IF synthesizer = "mock"
                        THEN generate_mock_response(request.query, primary_results,
                                                    data_summary.total_relationships)
                        ELSE generate_live_response(request.query, primary_results,
                                                    outcome)
    /\ UNCHANGED <<relationships, searchLog, backend, synthesizer, data_summary,
                   request, primary_results, response>>
    /\ UNCHANGED extraVars

\* process_query, steps 4 to 6 (lines 99-132)
process_query_respond(order) ==
    /\ pc = "scoring"
    /\ LET r == process_query_response(synthesis, primary_results, order)
       IN IF r.raised
          THEN /\ pc' = "failed"
               /\ log' = [log EXCEPT !.respond = "raised"]
               /\ UNCHANGED response
          ELSE /\ pc' = "done"
               /\ log' = [log EXCEPT !.respond = "returned"]
               /\ response' = r
    /\ UNCHANGED <<relationships, searchLog, backend, synthesizer, data_summary,
                   request, primary_results, synthesis>>
    /\ UNCHANGED extraVars

\* process_query, the except branch (lines 134-137): fallback_response(query, k)
fallback_response(outcome) ==
    /\ pc = "failed"
    /\ LET hits == ClientSearch(request.query, request.k, <<>>, <<>>, 10, outcome)
       IN /\ log' = [log EXCEPT
                        !.searches = Append(@, SearchSent(request.query, request.k,
                                                          <<>>, <<>>, 10, outcome)),
                        !.fallback_results = hits,
                        !.entered_fallback = TRUE]
          /\ response' = fallback_response_result(request.query, hits, data_summary)
    /\ pc' = "done"
    /\ UNCHANGED <<relationships, searchLog, backend, synthesizer, data_summary,
                   request, primary_results, synthesis>>
    /\ UNCHANGED extraVars

vars == <<relationships, searchLog, backend, synthesizer, data_summary, pc, request,
          primary_results, synthesis, response, log, heap, index, readers,
          verification_cache, now, bulk, last_verify, ticks, citations,
          build_jobs, background_tasks, build_status>>

\* the query service at rest
ServiceConstructed ==
    /\ data_summary = <<>>
    /\ pc = "constructed"
    /\ request = NoRequest
    /\ primary_results = <<>>
    /\ synthesis = <<>>
    /\ response = NoResponse
    /\ log = NoLog

\* IndexManager internals and citation service not in play
NoIndex == [pc |-> "at_rest", ref |-> 0, s3_loader |-> FALSE, enhanced_data |-> 0,
            loaded_indices |-> <<>>, indices |-> <<>>, loads |-> 0, reloads |-> 0,
     build |-> "none"]
NoEntry == [cached |-> FALSE]
NoBulk == [pc |-> "idle"]
NoCall == [calls |-> 0]
NoCitations == [list |-> <<>>, previous |-> <<>>, runs |-> 0]
NoStatus == [asked |-> FALSE]

ExtraIdle ==
    /\ heap = <<>>
    /\ index = NoIndex
    /\ readers = <<>>
    /\ verification_cache = <<>>
    /\ now = 0
    /\ bulk = NoBulk
    /\ last_verify = NoCall
    /\ ticks = 0
    /\ citations = NoCitations
    /\ build_jobs = <<>>
    /\ background_tasks = <<>>
    /\ build_status = NoStatus

InitSearch ==
    /\ relationships \in Corpora
    /\ searchLog = NoSearch
    /\ backend = StoreBackend
    /\ synthesizer = "mock"
    /\ ServiceConstructed
    /\ ExtraIdle

NextSearch ==
    \E query \in SearchQueries, k \in SearchKs, source_filter \in SourceFilters,
       entity_filter \in EntityFilters, min_confidence \in MinConfidences :
        semantic_search(query, k, source_filter, entity_filter, min_confidence)

SpecSearch == InitSearch /\ [][NextSearch]_vars

Init ==
    /\ \/ relationships \in PipelineCorpora /\ backend = StoreBackend
       \/ relationships = <<>> /\ backend \in {[kind |-> "stub", hits |-> h] : h \in StubLists}
    /\ searchLog = NoSearch
    /\ synthesizer \in Synthesizers
    /\ ServiceConstructed
    /\ ExtraIdle

Next ==
    \/ \E stats_ok \in BOOLEAN : initialize(stats_ok)
    \/ \E query \in PipelineQueries, k \in RequestKs,
          source_filter \in RequestSourceFilters,
          entity_filter \in RequestEntityFilters, outcome \in BackendOutcomes :
           process_query_search(query, k, source_filter, entity_filter, outcome)
    \/ \E outcome \in LLMOutcomes : process_query_synthesize(outcome)
    \/ \E order \in SetOrders : process_query_respond(order)
    \/ \E outcome \in BackendOutcomes : fallback_response(outcome)

Spec == Init /\ [][Next]_vars

(***************************************************************************)
(* The query service over the vector store alone, for every requested k    *)
(***************************************************************************)
WideKs == 1..20

InitWide ==
    /\ relationships \in PipelineCorpora
    /\ backend = StoreBackend
    /\ searchLog = NoSearch
    /\ synthesizer \in {"mock", "throwing"}
    /\ ServiceConstructed
    /\ ExtraIdle

NextWide ==
    \/ \E stats_ok \in BOOLEAN : initialize(stats_ok)
    \/ \E query \in PipelineQueries, k \in WideKs,
          source_filter \in RequestSourceFilters,
          entity_filter \in RequestEntityFilters, outcome \in BackendOutcomes :
           process_query_search(query, k, source_filter, entity_filter, outcome)
    \/ \E outcome \in LLMOutcomes : process_query_synthesize(outcome)
    \/ \E order \in SetOrders : process_query_respond(order)
    \/ \E outcome \in BackendOutcomes : fallback_response(outcome)

SpecWide == InitWide /\ [][NextWide]_vars

(***************************************************************************)
(* The query service over a corpus about Bob Dylan                         *)
(***************************************************************************)
\* Bob Dylan -influence-> Woody Guthrie, NPR, https://npr.org/x, 0.9
RelDylan ==
    Rel(<<"B","o","b"," ","D","y","l","a","n">>,
        <<"i","n","f","l","u","e","n","c","e">>,
        <<"W","o","o","d","y"," ","G","u","t","h","r","i","e">>,
        <<"D","y","l","a","n"," ","c","i","t","e","d"," ","G","u","t","h","r","i","e"," ","a","s"," ","h","i","s"," ","g","r","e","a","t","e","s","t"," ","i","n","f","l","u","e","n","c","e">>,
        <<>>, <<>>, NPR, Url1, 90)

DylanQuery == <<"B","o","b"," ","D","y","l","a","n"," ","i","n","f","l","u","e","n","c","e">>
DylanQueries ==
    { DylanQuery,
      <<"B","o","b"," ","D","y","l","a","n"," ","i","n","f","l","u","e","n","c","e","s","?">> }
DylanKs == {5}
DylanCorpora == SeqsUpTo({RelDylan, RelB90}, MaxCorpus)

InitDylan ==
    /\ relationships \in DylanCorpora
    /\ backend = StoreBackend
    /\ searchLog = NoSearch
    /\ synthesizer \in Synthesizers
    /\ ServiceConstructed
    /\ ExtraIdle

NextDylan ==
    \/ \E stats_ok \in BOOLEAN : initialize(stats_ok)
    \/ \E query \in DylanQueries, k \in DylanKs,
          source_filter \in RequestSourceFilters,
          entity_filter \in RequestEntityFilters, outcome \in BackendOutcomes :
           process_query_search(query, k, source_filter, entity_filter, outcome)
    \/ \E outcome \in LLMOutcomes : process_query_synthesize(outcome)
    \/ \E order \in SetOrders : process_query_respond(order)
    \/ \E outcome \in BackendOutcomes : fallback_response(outcome)

SpecDylan == InitDylan /\ [][NextDylan]_vars

(***************************************************************************)
(* The query service over enriched hits: several entity attributions on    *)
(* one hit, hits without any, long content, many entities                  *)
(***************************************************************************)
Cit == <<"N","P","R"," ","2","0">>

\* two entity attributions, each with evidence, citation and confidence 0.9
HitPair ==
    StubHit(NPR, FALSE, Url1, <<Bob, Woo>>, Infl,
            << EntityAttr(Bob, RelA80.evidence, 90, Cit),
               EntityAttr(Woo, RelA80.evidence, 90, Cit) >>,
            <<>>, <<>>, <<3>>, 90)
\* one entity attribution with evidence, citation and confidence 0.9
HitSolo ==
    StubHit(Pfk, FALSE, Url1, <<Nina>>, Coll,
            << EntityAttr(Nina, RelA80.evidence, 90, Cit) >>, <<>>, <<>>, <<>>, 90)
\* no entity attribution
HitLegacy ==
    StubHit(NPR, FALSE, Url1, <<Bob, Nina>>, <<"r","e","f">>, <<>>, <<>>, <<>>, <<>>, 0)
\* no entity attribution, no url, content of 201 characters
HitLong ==
    [StubHit(Pfk, FALSE, <<>>, <<>>, <<>>, <<>>, <<>>, <<>>, <<>>, 0)
        EXCEPT !.content = [i \in 1..201 |-> "x"]]
\* an entity attribution that holds nothing; two entities
HitPlainDuo ==
    StubHit(Pfk, FALSE, <<>>, <<Bob, Woo>>, Infl,
            << EntityAttr(<<>>, <<>>, 50, <<>>) >>, <<>>, <<>>, <<>>, 0)
\* an entity attribution that holds nothing; one entity, named twice
HitPlainOne ==
    StubHit(Pfk, FALSE, <<>>, <<Nina, Nina>>, Coll,
            << EntityAttr(<<>>, <<>>, 50, <<>>) >>, <<>>, <<>>, <<>>, 0)
\* an entity attribution that holds nothing; eleven entities
HitCrowd ==
    StubHit(Pfk, FALSE, <<>>, [i \in 1..11 |-> <<"e">> \o FmtInt(i)], <<"r","e","f">>,
            << EntityAttr(<<>>, <<>>, 50, <<>>) >>, <<>>, <<>>, <<>>, 0)

RichPool == {HitPair, HitSolo, HitLegacy, HitLong, HitPlainDuo, HitPlainOne, HitCrowd}
RichLists == SeqsUpTo(RichPool, MaxStubHits)
RichQueries == { <<"B","o","b"," ","i","n","f","l">> }
RichKs == {5}

\* the iteration orders drawn: which entities, relationship types and sources
\* a set yields first
RichOrders ==
    { <<>>, <<Woo, Bob, Coll>>, <<Nina, Bob, Infl, Pfk>>, <<NPR, <<"e","1","1">>, Woo>> }

InitRich ==
    /\ relationships = <<>>
    /\ backend \in {[kind |-> "stub", hits |-> h] : h \in RichLists}
    /\ searchLog = NoSearch
    /\ synthesizer \in Synthesizers
    /\ ServiceConstructed
    /\ ExtraIdle

NextRich ==
    \/ \E stats_ok \in BOOLEAN : initialize(stats_ok)
    \/ \E query \in RichQueries, k \in RichKs, outcome \in BackendOutcomes :
           process_query_search(query, k, <<>>, <<>>, outcome)
    \/ \E outcome \in LLMOutcomes : process_query_synthesize(outcome)
    \/ \E order \in RichOrders : process_query_respond(order)
    \/ \E outcome \in BackendOutcomes : fallback_response(outcome)

SpecRich == InitRich /\ [][NextRich]_vars

(***************************************************************************)
(* IndexManager: startup, reload and the calls that read the corpus.       *)
(* self.relationships is a reference to a list object.  heap holds every   *)
(* list object ever bound to it: items is what the list holds now,         *)
(* loaded_as what it held when it was bound.  index.ref is the list the    *)
(* attribute references.                                                   *)
(***************************************************************************)
MaxReloads == 1      \* build_index calls per behaviour
MaxReaders == 1      \* reading calls per behaviour

queryVars == <<searchLog, backend, synthesizer, data_summary, pc, request,
               primary_results, synthesis, response, log>>
citationVars == <<verification_cache, now, bulk, last_verify, ticks, citations>>
buildVars == <<build_jobs, background_tasks, build_status>>

\* the relationship lists a snapshot source can hold
Snapshots == { <<>>, <<RelA80>>, <<RelB90, RelA30>> }

\* which source answers _load_enhanced_data: S3, the full local file, the
\* sample file, or none of them; with not_object no source answers and one
\* of the local files holds JSON that is not an object: json.load returns
\* it, it is bound to self.enhanced_data, and its .get raises
LoadOutcomes == {"s3", "full_file", "sample_file", "nothing", "not_object"}
\* IndexManager.initialize may fail before the load, in S3DataLoader.initialize
InitOutcomes == LoadOutcomes \cup {"s3_init_failed"}

\* S3DataLoader.load_enhanced_knowledge_graph raises on an empty relationship list
CanLoad(outcome, new) ==
    \/ outcome = "s3" /\ new # <<>>
    \/ outcome \in {"full_file", "sample_file"}

IndexManagerConstructed ==
    [pc |-> "constructed", ref |-> 1, s3_loader |-> FALSE, enhanced_data |-> 0,
     loaded_indices |-> <<>>, indices |-> <<>>, loads |-> 0, reloads |-> 0,
     build |-> "none"]

ListObject(items) == [items |-> items, loaded_as |-> items]

\* (variant: the loaded list is written over the list already referenced)
BindRelationships_InPlace(h, ref, new) ==
    [heap |-> [h EXCEPT ![ref].items = new], ref |-> ref]

\* self.relationships = self.enhanced_data.get('relationships', []): the
\* attribute is bound to the list of the data just loaded
BindRelationships(h, ref, new) ==
    [heap |-> Append(h, ListObject(new)), ref |-> Len(h) + 1]

\* _load_enhanced_data when no source answers (lines 64-81): a parsed file
\* that is not an object stays bound to self.enhanced_data (-1: a value
\* that is not None and not a dict)
LoadFailed(state, outcome) ==
    IF outcome = "not_object" THEN [state EXCEPT !.enhanced_data = -1] ELSE state

\* a reading call in progress sees the list now referenced
Witnessing(rs, ref) ==
    [i \in DOMAIN rs |->
        IF rs[i].pc # "done" THEN [rs[i] EXCEPT !.window = @ \cup {ref}] ELSE rs[i]]

\* (variant: the failure is raised to the caller of initialize)
index_initialize_except_Reraise(state) == [state EXCEPT !.pc = "raised"]

\* IndexManager.initialize, lines 38-42: the failure is logged, startup goes on
index_initialize_except(state) ==
    [state EXCEPT !.pc = "ready", !.loaded_indices = <<"main">>]

\* IndexManager.initialize, run by the startup hook before any request
index_initialize(outcome, new) ==
    /\ index.pc = "constructed"
    /\ IF CanLoad(outcome, new)
       THEN LET b == BindRelationships(heap, index.ref, new)
            IN /\ heap' = b.heap
               /\ relationships' = b.heap[b.ref].items
               /\ index' = [index EXCEPT !.pc = "ready", !.s3_loader = TRUE,
                                         !.ref = b.ref, !.enhanced_data = b.ref,
                                         !.loaded_indices = <<"enhanced_main">>]
       ELSE /\ index' = index_initialize_except(
                            LoadFailed([index EXCEPT !.s3_loader = TRUE], outcome))
            /\ UNCHANGED <<heap, relationships>>
    /\ UNCHANGED <<readers, queryVars, citationVars, buildVars>>

\* build_index, lines 182-191: the call starts; with force_rebuild, or with no
\* data loaded, it awaits _load_enhanced_data
IndexBuilt(state, h, name) ==
    [state EXCEPT !.indices = Append(@, [name |-> name,
                                         total_items |-> Len(h[state.ref].items)]),
                  !.loaded_indices =
                      IF \E i \in DOMAIN @ : @[i] = name THEN @ ELSE Append(@, name)]

build_index_begin(index_name, force_rebuild) ==
    /\ index.pc = "ready"
    /\ index.reloads < MaxReloads
    /\ IF force_rebuild \/ index.enhanced_data = 0
       THEN index' = [index EXCEPT !.reloads = @ + 1, !.loads = @ + 1]
       ELSE IF index.enhanced_data = -1
       THEN \* self.enhanced_data.get('_s3_metadata', {}) raises (line 216)
            index' = [index EXCEPT !.reloads = @ + 1, !.build = "raised"]
       ELSE index' = IndexBuilt([index EXCEPT !.reloads = @ + 1, !.build = "returned"],
                                heap, index_name)
    /\ UNCHANGED <<heap, relationships, readers, queryVars, citationVars, buildVars>>

\* build_index, lines 191-231: the load answers, the attribute is rebound and
\* the index is built from the new list; a failed load raises to the caller
build_index_complete(index_name, outcome, new) ==
    /\ index.pc = "ready"
    /\ index.loads > 0
    /\ IF CanLoad(outcome, new)
       THEN LET b == BindRelationships(heap, index.ref, new)
            IN /\ heap' = b.heap
               /\ relationships' = b.heap[b.ref].items
               /\ index' = IndexBuilt([index EXCEPT !.loads = @ - 1, !.ref = b.ref,
                                                    !.build = "returned",
                                                    !.enhanced_data = b.ref,
                                                    !.loaded_indices = <<"enhanced_main">>],
                                      b.heap, index_name)
               /\ readers' = Witnessing(readers, b.ref)
       ELSE /\ index' = LoadFailed([index EXCEPT !.loads = @ - 1, !.build = "raised"],
                                    outcome)
            /\ UNCHANGED <<heap, relationships, readers>>
    /\ UNCHANGED <<queryVars, citationVars, buildVars>>

\* get_relationships_by_entity (lines 365-380) over one list
RelationshipsByEntity(rels, entity_name) ==
    LET Matches(rel) ==
            \/ Contains(Lower(rel.source_entity), Lower(entity_name))
            \/ Contains(Lower(rel.target_entity), Lower(entity_name))
    IN SelectSeq(rels, Matches)

\* search_relationships / get_relationships_by_entity, first statement:
\* `if not self.relationships: return []`
reader_start(kind, query, k) ==
    /\ index.pc = "ready"
    /\ Len(readers) < MaxReaders
    /\ readers' = Append(readers,
          [kind |-> kind, query |-> query, k |-> k,
           pc |-> IF heap[index.ref].items = <<>> THEN "done" ELSE "bind",
           it |-> 0, pos |-> 0, results |-> <<>>, window |-> {index.ref},
           result |-> <<>>])
    /\ UNCHANGED <<heap, relationships, index, queryVars, citationVars, buildVars>>

\* `for rel in self.relationships`: the loop takes the list now referenced
reader_bind(i) ==
    /\ i \in DOMAIN readers
    /\ readers[i].pc = "bind"
    /\ readers' = [readers EXCEPT ![i].pc = "iter", ![i].it = index.ref, ![i].pos = 1]
    /\ UNCHANGED <<heap, relationships, index, queryVars, citationVars, buildVars>>

\* one round of the loop, or its end: the sort and `results[:k]`
reader_next(i) ==
    /\ i \in DOMAIN readers
    /\ readers[i].pc = "iter"
    /\ LET r == readers[i]
           items == heap[r.it].items
       IN IF r.pos <= Len(items)
          THEN LET rel == items[r.pos]
                   found ==
                       IF r.kind = "search"
                       THEN HitsOf(rel, Lower(r.query), <<>>, <<>>, 0)
                       ELSE RelationshipsByEntity(<<rel>>, r.query)
               IN readers' = [readers EXCEPT ![i].results = @ \o found,
                                             ![i].pos = @ + 1]
          ELSE readers' = [readers EXCEPT
                              ![i].pc = "done",
                              ![i].result = IF r.kind = "search"
                                            THEN Take(SortDesc(r.results), r.k)
                                            ELSE r.results]
    /\ UNCHANGED <<heap, relationships, index, queryVars, citationVars, buildVars>>

IndexQueries == { <<"b","o","b">>, <<" "," ">>, <<>> }
IndexKs == {1}
IndexEntities == { <<"b","o","b">> }

InitIndex ==
    /\ relationships = <<>>
    /\ heap = << ListObject(<<>>) >>
    /\ index = IndexManagerConstructed
    /\ readers = <<>>
    /\ verification_cache = <<>>
    /\ now = 0
    /\ bulk = NoBulk
    /\ last_verify = NoCall
    /\ ticks = 0
    /\ citations = NoCitations
    /\ build_jobs = <<>>
    /\ background_tasks = <<>>
    /\ build_status = NoStatus
    /\ searchLog = NoSearch
    /\ backend = StoreBackend
    /\ synthesizer = "mock"
    /\ ServiceConstructed

NextIndex ==
    \/ \E outcome \in InitOutcomes, new \in Snapshots : index_initialize(outcome, new)
    \/ \E force_rebuild \in BOOLEAN : build_index_begin("rebuilt", force_rebuild)
    \/ \E outcome \in LoadOutcomes, new \in Snapshots :
           build_index_complete("rebuilt", outcome, new)
    \/ \E query \in IndexQueries, k \in IndexKs : reader_start("search", query, k)
    \/ \E entity_name \in IndexEntities : reader_start("by_entity", entity_name, 0)
    \/ \E i \in 1..MaxReaders : reader_bind(i)
    \/ \E i \in 1..MaxReaders : reader_next(i)

SpecIndex == InitIndex /\ [][NextIndex]_vars

(***************************************************************************)
(* CitationService: source verification                                    *)
(***************************************************************************)
MaxUrls == 3         \* longest url list given to bulk_verify_sources
MaxTicks == 3        \* clock advances per behaviour
MaxVerifies == 3     \* verify_source calls per behaviour outside a bulk call

CacheTTL == 3600               \* seconds a cached verification is used
DefaultMaxConcurrent == 10     \* max_concurrent of bulk_verify_sources

\* timedelta.seconds of a non-negative timedelta of age seconds: the days
\* are held in timedelta.days, .seconds is what is left (0 <= seconds < 86400)
TimedeltaSeconds(age) == age % (24 * 3600)

Url2 == <<"h","t","t","p",":","/","/","a",".","i","o">>
UrlNoScheme == <<"n","p","r",".","o","r","g","/","x">>
UrlNoDot == <<"h","t","t","p",":","/","/","x">>

\* str.find(c) on a text, 1-based; 0 when c does not occur
FindChar(s, cs) ==
    IF \E i \in DOMAIN s : s[i] \in cs
    THEN CHOOSE i \in DOMAIN s : s[i] \in cs /\ \A j \in 1..(i - 1) : s[j] \notin cs
    ELSE 0

Letters == {UpperChars[i] : i \in DOMAIN UpperChars} \cup {LowerChars[i] : i \in DOMAIN LowerChars}

SchemeChars == Letters \cup {DigitChars[i] : i \in DOMAIN DigitChars} \cup {"+", "-", "."}

\* urlparse(url): the scheme (lowered) and the netloc
UrlParse(url) ==
    LET colon == FindChar(url, {":"})
        has_scheme == /\ colon > 1
                      /\ url[1] \in Letters
                      /\ \A j \in 1..(colon - 1) : url[j] \in SchemeChars
        rest == IF has_scheme THEN SubSeq(url, colon + 1, Len(url)) ELSE url
        after == IF Len(rest) >= 2 /\ rest[1] = "/" /\ rest[2] = "/"
                 THEN SubSeq(rest, 3, Len(rest)) ELSE <<>>
        stop == FindChar(after, {"/", "?", "#"})
    IN  [scheme |-> IF has_scheme THEN Lower(SubSeq(url, 1, colon - 1)) ELSE <<>>,
         netloc |-> IF stop = 0 THEN after ELSE SubSeq(after, 1, stop - 1)]

\* CitationService._is_valid_url
is_valid_url(url) ==
    LET parsed == UrlParse(url)
    IN  /\ parsed.scheme \in { <<"h","t","t","p">>, <<"h","t","t","p","s">> }
        /\ parsed.netloc # <<>>
        /\ \E i \in DOMAIN parsed.netloc : parsed.netloc[i] = "."
        /\ \A i \in DOMAIN parsed.netloc : parsed.netloc[i] \notin {"<", ">", "\"", "'"}

\* SourceVerification(url=url, is_accessible=False, last_checked=now); an
\* optional field is <<>> (None) or <<value>>; domain_credibility, a lookup
\* of the domain in a fixed table, is left out
NewVerification(url, t) ==
    [url |-> url, is_accessible |-> FALSE, status_code |-> <<>>, last_checked |-> t,
     redirect_url |-> <<>>, ssl_valid |-> FALSE, error_message |-> <<>>]

\* what the HTTP exchange of one check does: HEAD answers 200, answers 500,
\* answers 200 from a redirect target that is no valid url, raises
\* ClientResponseError and GET then answers 200, the connection fails
\* (ClientConnectorError), the total timeout passes, or something else raises
NetworkOutcomes ==
    {"ok", "server_error", "bad_redirect", "head_rejected", "unreachable", "timeout", "unexpected"}

\* CitationService._process_response
process_response(verification, status, response_url) ==
    LET accessible == 200 <= status /\ status < 400
        redirected == response_url # verification.url
        bad == redirected /\ ~is_valid_url(response_url)
    IN  [verification EXCEPT
            !.status_code = <<status>>,
            !.is_accessible = accessible /\ ~bad,
            !.redirect_url = IF redirected THEN <<response_url>> ELSE @,
            !.error_message = IF bad THEN <<"Redirected to invalid URL">> ELSE @]

\* (variant: a timeout is raised again instead of being recorded)
verify_source_except_Reraise(verification, outcome) ==
    IF outcome = "timeout"
    THEN [raised |-> TRUE, verification |-> verification]
    ELSE [raised |-> FALSE,
          verification |-> [verification EXCEPT !.error_message =
              IF outcome = "unreachable" THEN <<"Client error: ...">>
              ELSE <<"Unexpected error: ...">>]]

\* the except clauses of verify_source (lines 214-222)
verify_source_except(verification, outcome) ==
    [raised |-> FALSE,
     verification |-> [verification EXCEPT !.error_message =
         IF outcome = "unreachable" THEN <<"Client error: ...">>
         ELSE IF outcome = "timeout"
              THEN <<"Request timeout - server may be slow or unresponsive">>
              ELSE <<"Unexpected error: ...">>]]

\* verify_source up to its first suspension: the cache check, the new
\* SourceVerification, the url validation, the ssl check (lines 163-190)
verify_source_begin(cache, url, t) ==
    IF cache[url].cached /\ TimedeltaSeconds(t - cache[url].verification.last_checked) < CacheTTL
    THEN [returned |-> TRUE, hit |-> TRUE, verification |-> cache[url].verification]
    ELSE IF ~is_valid_url(url)
         THEN [returned |-> TRUE, hit |-> FALSE,
               verification |-> [NewVerification(url, t) EXCEPT
                                    !.error_message = <<"Invalid URL format">>]]
         ELSE [returned |-> FALSE, hit |-> FALSE,
               verification |-> [NewVerification(url, t) EXCEPT
                                    !.ssl_valid = (UrlParse(url).scheme = <<"h","t","t","p","s">>)]]

\* verify_source from the HTTP exchange to the end of the try statement
\* (lines 201-222)
verify_source_request(verification, outcome) ==
    IF outcome \in {"ok", "head_rejected"}
    THEN [raised |-> FALSE, verification |-> process_response(verification, 200, verification.url)]
    ELSE IF outcome = "server_error"
    THEN [raised |-> FALSE, verification |-> process_response(verification, 500, verification.url)]
    ELSE IF outcome = "bad_redirect"
    THEN [raised |-> FALSE, verification |-> process_response(verification, 200, UrlNoScheme)]
    ELSE verify_source_except(verification, outcome)

\* self.verification_cache[url] = verification (line 225), reached unless
\* the call raised
CacheStore(cache, url, result) ==
    IF result.raised THEN cache
    ELSE [cache EXCEPT ![url] = [cached |-> TRUE, verification |-> result.verification]]

UrlPool == {Url1, Url2, UrlNoScheme}

EmptyCache == [url \in UrlPool |-> NoEntry]

(***************************************************************************)
(* CitationService.bulk_verify_sources                                     *)
(***************************************************************************)
\* (variant: the semaphore lets every task in)
SemaphoreFree_Always(value) == TRUE

\* asyncio.Semaphore.locked() is false: acquire() returns at once
SemaphoreFree(value) == value > 0

\* a task of gather: verify_with_semaphore(url) before it has the semaphore
WaitingTask(url) == [url |-> url, pc |-> "waiting", raised |-> FALSE]

\* a task that has left verify_with_semaphore with (url, verification), or
\* with an exception; how: what its verify_source call met
FinishedTask(url, result, how) ==
    [url |-> url, pc |-> "done", raised |-> result.raised,
     verification |-> result.verification, how |-> how]

\* the tasks whose verify_source call is suspended in its HTTP exchange
InProgress(b) == {i \in DOMAIN b.tasks : b.tasks[i].pc = "requesting"}

\* bulk_verify_sources(urls, max_concurrent) up to gather: the semaphore
\* and one task per url
bulk_verify_sources(urls, max_concurrent) ==
    /\ bulk.pc = "idle"
    /\ bulk' = [pc |-> "running", urls |-> urls, max_concurrent |-> max_concurrent,
                semaphore |-> max_concurrent,
                tasks |-> [i \in DOMAIN urls |-> WaitingTask(urls[i])],
                verifications |-> <<>>]
    /\ UNCHANGED <<citations, verification_cache, now, last_verify, ticks>>
    /\ UNCHANGED <<heap, index, readers, buildVars>>
    /\ UNCHANGED <<relationships, queryVars>>

\* task i takes the semaphore and runs verify_source to its first
\* suspension; a call that returns at once leaves the semaphore again
verify_with_semaphore_enter(i) ==
    /\ bulk.pc = "running"
    /\ i \in DOMAIN bulk.tasks
    /\ bulk.tasks[i].pc = "waiting"
    /\ SemaphoreFree(bulk.semaphore)
    /\ LET url == bulk.tasks[i].url
           begun == verify_source_begin(verification_cache, url, now)
       IN  bulk' = IF begun.returned
                   THEN [bulk EXCEPT !.tasks[i] =
                            FinishedTask(url, [raised |-> FALSE, verification |-> begun.verification],
                                         IF begun.hit THEN "cache_hit" ELSE "invalid_url")]
                   ELSE [bulk EXCEPT !.tasks[i] =
                            [url |-> url, pc |-> "requesting", raised |-> FALSE,
                             verification |-> begun.verification],
                         !.semaphore = @ - 1]
    /\ UNCHANGED <<citations, verification_cache, now, last_verify, ticks>>
    /\ UNCHANGED <<heap, index, readers, buildVars>>
    /\ UNCHANGED <<relationships, queryVars>>

\* the HTTP exchange of task i ends: the result is cached and the semaphore
\* released
verify_with_semaphore_exit(i, outcome) ==
    /\ bulk.pc = "running"
    /\ i \in DOMAIN bulk.tasks
    /\ bulk.tasks[i].pc = "requesting"
    /\ LET url == bulk.tasks[i].url
           result == verify_source_request(bulk.tasks[i].verification, outcome)
       IN  /\ verification_cache' = CacheStore(verification_cache, url, result)
           /\ bulk' = [bulk EXCEPT !.tasks[i] = FinishedTask(url, result, outcome),
                                   !.semaphore = @ + 1]
    /\ UNCHANGED <<citations, now, last_verify, ticks>>
    /\ UNCHANGED <<heap, index, readers, buildVars>>
    /\ UNCHANGED <<relationships, queryVars>>

\* the result dictionary (lines 478-485): the tasks in order, a later task
\* of the same url replacing an earlier one, a raised task dropped
RECURSIVE BuildVerifications(_, _)
BuildVerifications(tasks, n) ==
    IF n = 0 THEN [u \in {} |-> 0]
    ELSE LET before == BuildVerifications(tasks, n - 1)
             task == tasks[n]
         IN  IF task.raised THEN before
             ELSE [u \in DOMAIN before \cup {task.url} |->
                      IF u = task.url THEN task.verification ELSE before[u]]

\* gather returns: every task is over
bulk_verify_sources_return ==
    /\ bulk.pc = "running"
    /\ \A i \in DOMAIN bulk.tasks : bulk.tasks[i].pc = "done"
    /\ bulk' = [bulk EXCEPT !.pc = "returned",
                            !.verifications = BuildVerifications(bulk.tasks, Len(bulk.tasks))]
    /\ UNCHANGED <<citations, verification_cache, now, last_verify, ticks>>
    /\ UNCHANGED <<heap, index, readers, buildVars>>
    /\ UNCHANGED <<relationships, queryVars>>

MaxConcurrents == {1, 2, DefaultMaxConcurrent}

\* the outcomes drawn for the checks of a bulk call
BulkOutcomes == {"ok", "server_error", "unreachable", "timeout"}

UrlLists == SeqsUpTo(UrlPool, MaxUrls)

InitCitation ==
    /\ relationships = <<>>
    /\ backend = StoreBackend
    /\ synthesizer = "mock"
    /\ searchLog = NoSearch
    /\ ServiceConstructed
    /\ heap = <<>>
    /\ index = NoIndex
    /\ readers = <<>>
    /\ verification_cache = EmptyCache
    /\ now = 0
    /\ bulk = NoBulk
    /\ last_verify = NoCall
    /\ ticks = 0
    /\ citations = NoCitations
    /\ build_jobs = <<>>
    /\ background_tasks = <<>>
    /\ build_status = NoStatus

NextCitation ==
    \/ \E urls \in UrlLists, max_concurrent \in MaxConcurrents :
           bulk_verify_sources(urls, max_concurrent)
    \/ \E i \in 1..MaxUrls : verify_with_semaphore_enter(i)
    \/ \E i \in 1..MaxUrls, outcome \in BulkOutcomes : verify_with_semaphore_exit(i, outcome)
    \/ bulk_verify_sources_return

SpecCitation == InitCitation /\ [][NextCitation]_vars

(***************************************************************************)
(* CitationService.verify_source called on its own, as format_citation     *)
(* does, while the clock advances between the calls                        *)
(***************************************************************************)
\* the seconds the clock advances by between two calls
TickSteps == {1, CacheTTL - 1, 24 * 3600}

\* verify_source(url), the HTTP exchange included
verify_source(url, outcome) ==
    /\ bulk.pc = "idle"
    /\ last_verify.calls < MaxVerifies
    /\ LET begun == verify_source_begin(verification_cache, url, now)
           result == IF begun.returned
                     THEN [raised |-> FALSE, verification |-> begun.verification]
                     ELSE verify_source_request(begun.verification, outcome)
           had_entry == verification_cache[url].cached
       IN  /\ verification_cache' =
                  IF begun.returned THEN verification_cache
                  ELSE CacheStore(verification_cache, url, result)
           /\ last_verify' =
                  [calls |-> last_verify.calls + 1, url |-> url,
                   had_entry |-> had_entry,
                   age |-> IF had_entry
                           THEN now - verification_cache[url].verification.last_checked
                           ELSE 0,
                   hit |-> begun.hit,
                   requested |-> ~begun.returned,
                   raised |-> result.raised,
                   returned |-> result.verification]
    /\ UNCHANGED <<citations, now, bulk, ticks>>
    /\ UNCHANGED <<heap, index, readers, buildVars>>
    /\ UNCHANGED <<relationships, queryVars>>

\* time passes
tick(seconds) ==
    /\ ticks < MaxTicks
    /\ now' = now + seconds
    /\ ticks' = ticks + 1
    /\ UNCHANGED <<citations, verification_cache, bulk, last_verify>>
    /\ UNCHANGED <<heap, index, readers, buildVars>>
    /\ UNCHANGED <<relationships, queryVars>>

CallUrls == {Url1, UrlNoDot}

InitCache ==
    /\ relationships = <<>>
    /\ backend = StoreBackend
    /\ synthesizer = "mock"
    /\ searchLog = NoSearch
    /\ ServiceConstructed
    /\ heap = <<>>
    /\ index = NoIndex
    /\ readers = <<>>
    /\ verification_cache = [url \in CallUrls |-> NoEntry]
    /\ now = 0
    /\ bulk = NoBulk
    /\ last_verify = NoCall
    /\ ticks = 0
    /\ citations = NoCitations
    /\ build_jobs = <<>>
    /\ background_tasks = <<>>
    /\ build_status = NoStatus

NextCache ==
    \/ \E url \in CallUrls, outcome \in NetworkOutcomes : verify_source(url, outcome)
    \/ \E seconds \in TickSteps : tick(seconds)

SpecCache == InitCache /\ [][NextCache]_vars

(***************************************************************************)
(* CitationService._deduplicate_citations                                  *)
(***************************************************************************)
MaxCitations == 3    \* longest citation list drawn
MaxDedupRuns == 2    \* applications of _deduplicate_citations per behaviour

\* a FormattedCitation: the text, the confidence (percent) and the url of
\* its verification (<<>>: no verification, format_citation verifies only a
\* result that has a url)
FormattedCitation(text, confidence, url) ==
    [citation |-> text, confidence |-> confidence, verification_url |-> url]

\* (variant: the whole citation text is the signature)
SourceSig_WholeText(citation) ==
    IF citation.verification_url # <<>> THEN citation.verification_url
    ELSE citation.citation \o Ellipsis

\* the source signature (lines 400-405): the verified url, or else
\* f"{citation.citation[:50]}..."
SourceSig(citation) ==
    IF citation.verification_url # <<>> THEN citation.verification_url
    ELSE Take(citation.citation, 50) \o Ellipsis

\* sorted(citations, key=lambda c: c.confidence, reverse=True): stable, the
\* citations of equal confidence keep their order
RECURSIVE SortedByConfidence(_)
SortedByConfidence(cs) ==
    IF cs = <<>> THEN <<>>
    ELSE LET rest == SortedByConfidence(Tail(cs))
             c == Head(cs)
             ahead == Cardinality({i \in DOMAIN rest : rest[i].confidence > c.confidence})
         IN  SubSeq(rest, 1, ahead) \o <<c>> \o SubSeq(rest, ahead + 1, Len(rest))

\* the loop over the sorted citations (lines 399-409)
RECURSIVE KeepFirstPerSig(_, _)
KeepFirstPerSig(cs, seen_sources) ==
    IF cs = <<>> THEN <<>>
    ELSE LET source_sig == SourceSig(Head(cs))
         IN  IF source_sig \notin seen_sources
             THEN <<Head(cs)>> \o KeepFirstPerSig(Tail(cs), seen_sources \cup {source_sig})
             ELSE KeepFirstPerSig(Tail(cs), seen_sources)

deduplicate_citations_of(cs) == KeepFirstPerSig(SortedByConfidence(cs), {})

\* _deduplicate_citations applied to the list held
deduplicate_citations ==
    /\ citations.runs < MaxDedupRuns
    /\ citations' = [list |-> deduplicate_citations_of(citations.list),
                     previous |-> citations.list,
                     runs |-> citations.runs + 1]
    /\ UNCHANGED <<verification_cache, now, bulk, last_verify, ticks>>
    /\ UNCHANGED <<heap, index, readers, buildVars>>
    /\ UNCHANGED <<relationships, queryVars>>

\* a citation text of 51 characters ending in c
LongText(c) == [i \in 1..50 |-> "a"] \o <<c>>

ShortText == <<"A","n","n"," ","(","2","0",")",".">>

CitationPool ==
    { FormattedCitation(LongText("1"), 90, <<>>),
      FormattedCitation(LongText("2"), 80, <<>>),
      FormattedCitation(ShortText, 80, Url1),
      FormattedCitation(LongText("1"), 95, Url1),
      FormattedCitation(ShortText, 80, <<>>) }

InitDedup ==
    /\ relationships = <<>>
    /\ backend = StoreBackend
    /\ synthesizer = "mock"
    /\ searchLog = NoSearch
    /\ ServiceConstructed
    /\ heap = <<>>
    /\ index = NoIndex
    /\ readers = <<>>
    /\ verification_cache = <<>>
    /\ now = 0
    /\ bulk = NoBulk
    /\ last_verify = NoCall
    /\ ticks = 0
    /\ citations \in {[list |-> cs, previous |-> <<>>, runs |-> 0] :
                         cs \in SeqsUpTo(CitationPool, MaxCitations)}
    /\ build_jobs = <<>>
    /\ background_tasks = <<>>
    /\ build_status = NoStatus

NextDedup == deduplicate_citations

SpecDedup == InitDedup /\ [][NextDedup]_vars

(***************************************************************************)
(* Vector-store app: POST /index/build, its background task and            *)
(* GET /index/build/{build_id}.  A build id is a fresh uuid4: the ids are  *)
(* modelled as 1, 2, ... in order of creation.  Timestamps and the build   *)
(* time are left out of the entries.                                       *)
(***************************************************************************)
MaxJobs == 2         \* POST /index/build requests per behaviour

IndexBuildRequest(index_name, force_rebuild) ==
    [index_name |-> index_name, content_source |-> "s3://", force_rebuild |-> force_rebuild]

\* the entry written by POST /index/build (lines 238-243); <<>>: key absent
NewJob(build_request) ==
    [status |-> "started", index_name |-> build_request.index_name,
     content_source |-> build_request.content_source,
     chunks_processed |-> <<>>, index_size_bytes |-> <<>>, error_message |-> <<>>]

\* the update after index_manager.build_index returned (lines 475-481)
JobCompleted(job, result) ==
    [job EXCEPT !.status = "completed",
                !.chunks_processed = <<result.chunks_processed>>,
                !.index_size_bytes = <<result.index_size_bytes>>]

\* (variant: the exception leaves the task without an update of the entry)
JobFailed_Unrecorded(job, error) == job

\* the update of the except branch (lines 485-491)
JobFailed(job, error) ==
    [job EXCEPT !.status = "failed", !.error_message = <<error>>]

\* job.get(key, 0)
GetOr0(field) == IF field = <<>> THEN 0 ELSE field[1]

\* what index_manager.build_index answers: the result of the stub build, the
\* result of a build over two relationships, or an exception
BuildOutcomes ==
    { [raised |-> FALSE, chunks_processed |-> 100, index_size_bytes |-> 1048576, error |-> ""],
      [raised |-> FALSE, chunks_processed |-> 2, index_size_bytes |-> 8192, error |-> ""],
      [raised |-> TRUE, chunks_processed |-> 0, index_size_bytes |-> 0,
       error |-> "S3 data loader not initialized"] }

\* POST /index/build (lines 226-257)
post_index_build(build_request) ==
    /\ Len(build_jobs) < MaxJobs
    /\ build_jobs' = Append(build_jobs, NewJob(build_request))
    /\ background_tasks' = Append(background_tasks, "queued")
    /\ UNCHANGED build_status
    /\ UNCHANGED <<heap, index, readers, citationVars>>
    /\ UNCHANGED <<relationships, queryVars>>

\* _build_index_background up to the await of index_manager.build_index
\* (lines 456-469)
build_index_background_begin(build_id) ==
    /\ build_id \in DOMAIN background_tasks
    /\ background_tasks[build_id] = "queued"
    /\ build_jobs' = [build_jobs EXCEPT ![build_id].status = "building"]
    /\ background_tasks' = [background_tasks EXCEPT ![build_id] = "awaiting"]
    /\ UNCHANGED build_status
    /\ UNCHANGED <<heap, index, readers, citationVars>>
    /\ UNCHANGED <<relationships, queryVars>>

\* _build_index_background after the await (lines 471-493)
build_index_background_end(build_id, outcome) ==
    /\ build_id \in DOMAIN background_tasks
    /\ background_tasks[build_id] = "awaiting"
    /\ build_jobs' = [build_jobs EXCEPT ![build_id] =
                          IF outcome.raised THEN JobFailed(@, outcome.error)
                          ELSE JobCompleted(@, outcome)]
    /\ background_tasks' = [background_tasks EXCEPT ![build_id] = "done"]
    /\ UNCHANGED build_status
    /\ UNCHANGED <<heap, index, readers, citationVars>>
    /\ UNCHANGED <<relationships, queryVars>>

\* GET /index/build/{build_id} (lines 259-275)
get_build_status(build_id) ==
    /\ build_status' =
           IF build_id \notin DOMAIN build_jobs
           THEN [asked |-> TRUE, status_code |-> 404, build_id |-> build_id]
           ELSE LET job == build_jobs[build_id]
                IN  [asked |-> TRUE, status_code |-> 200, build_id |-> build_id,
                     status |-> job.status, index_name |-> job.index_name,
                     chunks_processed |-> GetOr0(job.chunks_processed),
                     index_size_bytes |-> GetOr0(job.index_size_bytes),
                     error_message |-> job.error_message]
    /\ UNCHANGED <<build_jobs, background_tasks>>
    /\ UNCHANGED <<heap, index, readers, citationVars>>
    /\ UNCHANGED <<relationships, queryVars>>

BuildRequests == { IndexBuildRequest("main", FALSE), IndexBuildRequest("rebuilt", TRUE) }

InitBuild ==
    /\ relationships = <<>>
    /\ backend = StoreBackend
    /\ synthesizer = "mock"
    /\ searchLog = NoSearch
    /\ ServiceConstructed
    /\ ExtraIdle

NextBuild ==
    \/ \E build_request \in BuildRequests : post_index_build(build_request)
    \/ \E build_id \in 1..MaxJobs : build_index_background_begin(build_id)
    \/ \E build_id \in 1..MaxJobs, outcome \in BuildOutcomes :
           build_index_background_end(build_id, outcome)
    \/ \E build_id \in 1..(MaxJobs + 1) : get_build_status(build_id)

SpecBuild == InitBuild /\ [][NextBuild]_vars

\* the event loop runs every background task that was added, and every call
\* of index_manager.build_index answers or raises
BuildFairness ==
    \A build_id \in 1..MaxJobs :
        /\ WF_vars(build_index_background_begin(build_id))
        /\ WF_vars(\E outcome \in BuildOutcomes :
                       build_index_background_end(build_id, outcome))

SpecBuildFair == SpecBuild /\ BuildFairness

(***************************************************************************)
(* Properties of the query service (Spec)                                  *)
(***************************************************************************)
Done == pc = "done"

Modes == {"full", "enhanced", "fallback", "empty"}

\* the primary search has been made
Searched == Len(log.searches) >= 1

\* every call of the search backend made so far was answered
BackendHealthy == \A i \in DOMAIN log.searches : log.searches[i].outcome = "ok"

\* the language-model call of the request failed
LLMFailed == log.llm # <<>> /\ log.llm[1] # "text"

\* the enhanced attributions of the hits of the primary search, and their quality
PrimaryAttributions == extract_enhanced_source_attributions(primary_results)
PrimaryQuality ==
    calculate_attribution_quality_metrics(PrimaryAttributions).attribution_quality

\* every optional field of the attribution is absent and it quotes no evidence
NothingAttributed(attr) ==
    /\ attr.artist = <<>> /\ attr.url = <<>> /\ attr.citation = <<>>
    /\ attr.start_position = <<>> /\ attr.end_position = <<>>
    /\ attr.paragraph_number = <<>>
    /\ attr.source_credibility = 0 /\ attr.relationship_type = <<>>
    /\ attr.evidence_text = <<>>

\* C1: process_query never raises to its caller, whatever the search backend
\* and the synthesizer do, and the response it returns has exactly one of the
\* modes full, enhanced, fallback, empty.
C1_AlwaysAResponse ==
    /\ ~response.raised
    /\ Done => response.mode \in Modes
    /\ ~Done => response = NoResponse

\* C1 witness: the synthesizer or the response construction raised, the
\* construction of the fallback raised as well, and a response was returned
C1_Witness_DoubleFailure ==
    /\ Done
    /\ log.entered_fallback
    /\ log.fallback_results # <<>>
    /\ AttributionRaises(log.fallback_results)
    /\ response.mode = "empty"

\* C2: when the primary search returns no hit the synthesizer is never
\* invoked, and the response has mode empty, no sources and a text that
\* contains the query.
C2_EmptyHitsNoSynthesis ==
    (Searched /\ primary_results = <<>>) =>
        /\ Done
        /\ log.synth = "none" /\ log.llm = <<>>
        /\ response.mode = "empty"
        /\ response.sources = <<>>
        /\ Contains(response.response, request.query)

\* C2 witness: the store holds no relationship and answered the search
C2_Witness_EmptyCorpus ==
    /\ Done
    /\ backend.kind = "store" /\ relationships = <<>>
    /\ log.searches[1].outcome = "ok"
    /\ response.mode = "empty"
    /\ request.query # <<>>

\* C3: with a synthesizer that always throws, a corpus in which the query has
\* a hit and a search backend that answers, process_query returns mode
\* fallback with a non-empty sources list, the attributions of the hits of a
\* second search made by fallback_response (query, k, no filter), and raises
\* nothing.
C3_ThrowingSynthesizer ==
    (Done /\ synthesizer = "throwing" /\ backend.kind = "store"
          /\ primary_results # <<>> /\ BackendHealthy) =>
        /\ ~response.raised
        /\ response.mode = "fallback"
        /\ response.sources # <<>>
        /\ Len(log.searches) = 2
        /\ log.fallback_results =
              VectorServiceSearch(relationships, request.query, request.k, <<>>, <<>>, 10)
        /\ Len(response.sources) = Len(log.fallback_results)
        /\ \A i \in DOMAIN response.sources :
              /\ response.sources[i].source = log.fallback_results[i].source_info.source
              /\ Take(response.sources[i].excerpt, 200)
                    = Take(log.fallback_results[i].content, 200)

\* C3 witness: the second search returned other hits than the primary search
C3_Witness_FreshSearch ==
    /\ Done /\ synthesizer = "throwing" /\ backend.kind = "store" /\ BackendHealthy
    /\ primary_results # <<>>
    /\ response.mode = "fallback"
    /\ log.fallback_results # primary_results
    /\ request.source_filter # <<>>

\* C4 (as claimed): when the language-model call fails for a request with a
\* hit, the response has mode fallback, not full or enhanced, and its text
\* holds the excerpts of the top 3 raw hits.
C4_LLMFailureEndsInFallback ==
    (Done /\ LLMFailed /\ primary_results # <<>>) =>
        /\ response.mode = "fallback"
        /\ \A i \in DOMAIN primary_results :
              i <= 3 => Contains(response.response, Excerpt150(primary_results[i].content))

\* C5 (amended): after a successful synthesis the mode is enhanced exactly
\* when the computed attribution_quality is above 0.3 and full otherwise;
\* attributions with every optional field absent, no evidence text and a
\* confidence of at most 0.7 give quality 0, and with any confidence they
\* give mode full.
C5_QualityGate ==
    (Done /\ log.respond = "returned") =>
        /\ response.mode \in {"enhanced", "full"}
        /\ response.mode = "enhanced" <=> FGt(PrimaryQuality, F03)
        /\ (\A i \in DOMAIN PrimaryAttributions : NothingAttributed(PrimaryAttributions[i]))
             => /\ response.mode = "full"
                /\ (\A i \in DOMAIN PrimaryAttributions :
                       ~ConfidenceAbove07(PrimaryAttributions[i].confidence))
                     => PrimaryQuality = FZero

\* C5 witness: a response built from attributions that have nothing and a
\* confidence of 0.5
C5_Witness_BareAttributions ==
    /\ Done /\ log.respond = "returned"
    /\ PrimaryAttributions # <<>>
    /\ \A i \in DOMAIN PrimaryAttributions :
          /\ NothingAttributed(PrimaryAttributions[i])
          /\ ~ConfidenceAbove07(PrimaryAttributions[i].confidence)
    /\ PrimaryQuality = FZero
    /\ response.mode = "full"

\* C5 (as claimed): attributions with every optional field absent give
\* attribution_quality 0 and mode full.
C5_OptionalAbsentGivesZero ==
    (Done /\ log.respond = "returned"
          /\ \A i \in DOMAIN PrimaryAttributions :
                NothingAttributed(PrimaryAttributions[i]))
        => PrimaryQuality = FZero /\ response.mode = "full"

\* C6: when a step after a successful primary search raises, fallback_response
\* runs a second search (query, k, no filter) and answers from its hits; when
\* that search fails or the construction of the fallback raises, the caller
\* receives the empty response, not an exception.
C6_FallbackAfterRaise ==
    (Done /\ (log.synth = "raised" \/ log.respond = "raised")) =>
        /\ log.entered_fallback
        /\ Len(log.searches) = 2
        /\ log.searches[2] = SearchSent(request.query, request.k, <<>>, <<>>, 10,
                                        log.searches[2].outcome)
        /\ log.fallback_results =
              ClientSearch(request.query, request.k, <<>>, <<>>, 10,
                           log.searches[2].outcome)
        /\ ~response.raised
        /\ (log.searches[2].outcome # "ok" \/ AttributionRaises(log.fallback_results))
              => response.mode = "empty" /\ response.sources = <<>>
        /\ (log.fallback_results # <<>> /\ ~AttributionRaises(log.fallback_results))
              => /\ response.mode = "fallback"
                 /\ Len(response.sources) = Len(log.fallback_results)

\* C6 witness: the response construction raised on a hit with a null source,
\* the second search returned that hit again, and the empty response came back
C6_Witness_FallbackRaised ==
    /\ Done
    /\ log.respond = "raised"
    /\ log.searches[2].outcome = "ok"
    /\ AttributionRaises(log.fallback_results)
    /\ response.mode = "empty"

\* C7 (as claimed): a failed primary search ends in the empty response only if
\* the fallback search failed as well.
C7_PrimaryFailureNeedsFallbackFailure ==
    (Done /\ log.searches[1].outcome # "ok" /\ response.mode = "empty") =>
        /\ Len(log.searches) = 2
        /\ log.searches[2].outcome # "ok"

(***************************************************************************)
(* Properties of the search (SpecSearch)                                   *)
(***************************************************************************)
Served == searchLog # NoSearch

\* the indices of the query terms that occur in the projected text of rel
MatchedTerms(rel, query) ==
    LET terms == Split(Lower(query))
        text  == Lower(CreateSearchableText(rel))
    IN {i \in DOMAIN terms : Contains(text, terms[i])}

\* rel passes the filters of request rq and matches at least one query term
Survives(rel, rq) ==
    /\ rq.source_filter # <<>>
          => Contains(Lower(rel.source), Lower(rq.source_filter[1]))
    /\ rq.entity_filter # <<>>
          => \/ Contains(Lower(rel.source_entity), Lower(rq.entity_filter[1]))
             \/ Contains(Lower(rel.target_entity), Lower(rq.entity_filter[1]))
    /\ rel.confidence >= rq.min_confidence
    /\ MatchedTerms(rel, rq.query) # {}

\* key(a) >= key(b) for the key (relevance, confidence); relevance na/d, nb/d
KeyAtLeast(na, ca, nb, cb) == na > nb \/ (na = nb /\ ca >= cb)

C9_RelevanceScore ==
    Served =>
      LET q    == searchLog.request.query
          hits == searchLog.hits
      IN /\ \A i \in DOMAIN hits :
              LET m == MatchedTerms(hits[i].relationship, q)
              IN /\ hits[i].relevance_score.num = Cardinality(m)
                 /\ hits[i].relevance_score.den = Len(Split(Lower(q)))
                 /\ m # {}
                 /\ 0 < hits[i].relevance_score.num
                 /\ hits[i].relevance_score.num <= hits[i].relevance_score.den
         /\ \A i, j \in DOMAIN hits :
              MatchedTerms(hits[j].relationship, q) \subseteq MatchedTerms(hits[i].relationship, q)
                 => hits[i].relevance_score.num * hits[j].relevance_score.den
                      >= hits[j].relevance_score.num * hits[i].relevance_score.den

\* C9 witness: a query that repeats a term; one hit matches the repeated term
\* only (score 2/3), another matches every term (score 3/3)
C9_Witness_PartialMatch ==
    /\ Served
    /\ LET q     == searchLog.request.query
           terms == Split(Lower(q))
           hits  == searchLog.hits
       IN /\ \E a, b \in DOMAIN terms : a # b /\ terms[a] = terms[b]
          /\ \E i, j \in DOMAIN hits :
                /\ MatchedTerms(hits[j].relationship, q) \subseteq MatchedTerms(hits[i].relationship, q)
                /\ hits[j].relevance_score.num = 2 /\ hits[j].relevance_score.den = 3
                /\ hits[i].relevance_score.num = 3 /\ hits[i].relevance_score.den = 3

\* C10: the hits are in descending order of (relevance_score, confidence),
\* they are the first k of that order over the surviving relationships
\* (length min(k, survivors)), and of two relationships with the same
\* projected text and confidences 0.3 and 0.8 the 0.8 one comes first.
C10_SortedTopK ==
    Served =>
      LET rq     == searchLog.request
          hits   == searchLog.hits
          surv   == {i \in DOMAIN relationships : Survives(relationships[i], rq)}
          nm(r)  == Cardinality(MatchedTerms(r, rq.query))
          inHits(r) == Cardinality({j \in DOMAIN hits : hits[j].relationship = r})
          inSurv(r) == Cardinality({i \in surv : relationships[i] = r})
      IN /\ \A i, j \in DOMAIN hits :
              i < j => KeyAtLeast(nm(hits[i].relationship), hits[i].relationship.confidence,
                                  nm(hits[j].relationship), hits[j].relationship.confidence)
         /\ Len(hits) = IF rq.k < Cardinality(surv) THEN rq.k ELSE Cardinality(surv)
         /\ \A j \in DOMAIN hits : inHits(hits[j].relationship) <= inSurv(hits[j].relationship)
         /\ \A i \in surv :
              inHits(relationships[i]) < inSurv(relationships[i])
                 => /\ Len(hits) = rq.k
                    /\ KeyAtLeast(nm(hits[rq.k].relationship), hits[rq.k].relationship.confidence,
                                  nm(relationships[i]), relationships[i].confidence)
         /\ (relationships = <<RelA30, RelA80>> /\ surv = {1, 2})
               => hits[1].relationship = RelA80

\* C10 witness: the corpus holds the 0.3 relationship before the 0.8 one with
\* the same projected text, both survive, and both are returned
C10_Witness_TieBreak ==
    /\ Served
    /\ relationships = <<RelA30, RelA80>>
    /\ CreateSearchableText(RelA30) = CreateSearchableText(RelA80)
    /\ Len(searchLog.hits) = 2
    /\ searchLog.hits[1].relationship.confidence = 80
    /\ searchLog.hits[2].relationship.confidence = 30

\* C10 witness: more relationships survive than k, so the list is cut
C10_Witness_Truncated ==
    /\ Served
    /\ Len(searchLog.hits) = searchLog.request.k
    /\ Cardinality({i \in DOMAIN relationships :
                       Survives(relationships[i], searchLog.request)}) > searchLog.request.k

(***************************************************************************)
(* Properties of the index manager (SpecIndex)                             *)
(***************************************************************************)
\* what a finished reading call would return over the list rels alone
AnswerOver(r, rels) ==
    IF r.kind = "search"
    THEN SearchRelationships(rels, r.query, r.k, <<>>, <<>>, 0)
    ELSE IF rels = <<>> THEN <<>> ELSE RelationshipsByEntity(rels, r.query)

\* the call ran with no corpus loaded from its first statement to its last
NoCorpusDuring(r) == \A id \in r.window : heap[id].loaded_as = <<>>

\* the query is empty after trimming
BlankQuery(query) == Split(query) = <<>>

\* C11: IndexManager.initialize always completes, also when no snapshot of
\* the knowledge graph can be loaded, and the service then runs with no
\* corpus; with no corpus, and for every query that is empty after trimming,
\* search_relationships returns the empty list.
C11_NoCorpusNoError ==
    /\ index.pc # "raised"
    /\ \A i \in DOMAIN readers :
          ( /\ readers[i].kind = "search"
            /\ readers[i].pc = "done"
            /\ NoCorpusDuring(readers[i]) \/ BlankQuery(readers[i].query) )
          => readers[i].result = <<>>

\* startup found no snapshot, and a search for "bob" has been answered
C11_Witness_NoSnapshot ==
    /\ index.pc = "ready"
    /\ index.enhanced_data = 0
    /\ index.loaded_indices = <<"main">>
    /\ \E i \in DOMAIN readers :
          /\ readers[i].kind = "search"
          /\ readers[i].pc = "done"
          /\ ~BlankQuery(readers[i].query)
          /\ readers[i].result = <<>>

\* C17: however a reload interleaves with a running search_relationships or
\* get_relationships_by_entity call, the call's result is the result over
\* one whole list that was the corpus at some moment of the call, and no
\* list is changed after it was loaded.
C17_ReadersSeeOneSnapshot ==
    /\ \A id \in DOMAIN heap : heap[id].items = heap[id].loaded_as
    /\ \A i \in DOMAIN readers :
          readers[i].pc = "done" =>
             \E id \in readers[i].window :
                readers[i].result = AnswerOver(readers[i], heap[id].loaded_as)

\* a reload finished while a call was in its loop: the call answered from
\* the list it held, which is no longer the corpus and answers differently
C17_Witness_ReloadDuringLoop ==
    \E i \in DOMAIN readers :
        /\ readers[i].pc = "done"
        /\ readers[i].it # 0
        /\ readers[i].it # index.ref
        /\ Cardinality(readers[i].window) >= 2
        /\ readers[i].result # <<>>
        /\ readers[i].result # AnswerOver(readers[i], heap[index.ref].items)

(***************************************************************************)
(* Properties of the query service (Spec), continued                       *)
(***************************************************************************)
\* C12: the primary search of process_query is sent with k = max(requested
\* k, 10), min_confidence 0.1 and the caller's source_filter and
\* entity_filter as they were given.
C12_PrimarySearchArguments ==
    Searched =>
        LET sent == log.searches[1]
        IN /\ sent.query = request.query
           /\ sent.k >= request.k
           /\ sent.k >= 10
           /\ sent.k \in {request.k, 10}
           /\ sent.min_confidence = 10
           /\ sent.source_filter = request.source_filter
           /\ sent.entity_filter = request.entity_filter

\* a request for 1 result with both filters set has sent its search for 10
C12_Witness_SmallK ==
    /\ Searched
    /\ request.k = 1
    /\ log.searches[1].k = 10
    /\ request.source_filter # <<>>
    /\ request.entity_filter # <<>>

(***************************************************************************)
(* Properties of the Bob Dylan scenario (SpecDylan)                        *)
(***************************************************************************)
\* the corpus holds the one relationship, "Bob Dylan influence" was asked
\* with k = 5 and no filter, every search was answered, the request is over
ScenarioA ==
    /\ relationships = <<RelDylan>>
    /\ request.query = DylanQuery
    /\ request.k = 5
    /\ request.source_filter = <<>>
    /\ request.entity_filter = <<>>
    /\ BackendHealthy
    /\ Done

BulkReturned == bulk.pc = "returned"

\* task i made the last check of its url in the call
LastCheckOf(i) == \A j \in DOMAIN bulk.tasks : j > i => bulk.tasks[j].url # bulk.tasks[i].url

\* C14: no verify_source call of a bulk call raises, the returned map has a
\* key for every input url, the entry of a url whose check timed out, was
\* unreachable or was malformed has is_accessible false and an error
\* message, and the entry of a url whose check was answered 200 is
\* accessible and without error whatever happened to the others.
C14_FailuresAreRecorded ==
    /\ bulk.pc \in {"running", "returned"} =>
           \A i \in DOMAIN bulk.tasks : ~bulk.tasks[i].raised
    /\ BulkReturned =>
           /\ DOMAIN bulk.verifications = {bulk.urls[i] : i \in DOMAIN bulk.urls}
           /\ \A i \in DOMAIN bulk.tasks :
                  LET task == bulk.tasks[i]
                      entry == bulk.verifications[task.url]
                  IN  LastCheckOf(i) =>
                          /\ entry.url = task.url
                          /\ task.how \in {"timeout", "unreachable", "invalid_url"} =>
                                 ~entry.is_accessible /\ entry.error_message # <<>>
                          /\ task.how = "ok" =>
                                 /\ entry.is_accessible
                                 /\ entry.error_message = <<>>
                                 /\ entry.status_code = <<200>>

\* three distinct urls were verified, one check timed out, another was
\* answered 200, and the call has returned
C14_Witness_OneTimeout ==
    /\ BulkReturned
    /\ Len(bulk.urls) = 3
    /\ Cardinality(DOMAIN bulk.verifications) = 3
    /\ \E i, j \in DOMAIN bulk.tasks :
           /\ bulk.tasks[i].how = "timeout"
           /\ bulk.tasks[j].how = "ok"
           /\ bulk.verifications[bulk.tasks[j].url].is_accessible

\* C15: while bulk_verify_sources runs, at most max_concurrent of its
\* verify_source calls are in progress, and the semaphore counts the rest.
C15_ConcurrencyLimit ==
    bulk.pc = "running" =>
        /\ Cardinality(InProgress(bulk)) <= bulk.max_concurrent
        /\ bulk.semaphore = bulk.max_concurrent - Cardinality(InProgress(bulk))

\* the limit binds: max_concurrent calls are in progress and a task waits
C15_Witness_TaskHeldBack ==
    /\ bulk.pc = "running"
    /\ bulk.max_concurrent = 2
    /\ Cardinality(InProgress(bulk)) = 2
    /\ \E i \in DOMAIN bulk.tasks : bulk.tasks[i].pc = "waiting"

(***************************************************************************)
(* Properties of the verification cache (SpecCache)                        *)
(***************************************************************************)
\* C16 as stated: a verify_source call returns the cached result without a
\* network check exactly when the url has a cached entry whose age is less
\* than one hour.
C16_CacheHitWithinTTL ==
    last_verify.calls > 0 =>
        /\ last_verify.hit <=> (last_verify.had_entry /\ last_verify.age < CacheTTL)
        /\ last_verify.hit => ~last_verify.requested

(***************************************************************************)
(* Properties of the attribution metrics (Spec)                            *)
(***************************************************************************)
\* the additions of the score when a location counts as soon as it is
\* present (not None), whatever its value
PresenceScoreTerms(attr) ==
    (IF attr.evidence_text # <<>> /\ Len(attr.evidence_text) > 10 THEN <<F03>> ELSE <<>>)
    \o (IF attr.url # <<>> THEN <<F02>> ELSE <<>>)
    \o (IF attr.citation # <<>> THEN <<F02>> ELSE <<>>)
    \o (IF \/ attr.paragraph_number # <<>>
           \/ (attr.start_position # <<>> /\ attr.end_position # <<>>)
        THEN <<F02>> ELSE <<>>)
    \o (IF ConfidenceAbove07(attr.confidence) THEN <<F01>> ELSE <<>>)

\* the attribution has all five features
AllFiveFeatures(attr) == Len(PresenceScoreTerms(attr)) = 5

\* a response was built from the attributions of the primary hits
Attributed == Done /\ log.respond = "returned" /\ PrimaryAttributions # <<>>

\* C18 as stated: attribution_quality is the average of the scores, a score
\* being the sum of 0.3, 0.2, 0.2, 0.2 and 0.1 for the features present
\* (a location of any integer value, 0 included, earns its 0.2); it lies in
\* [0,1] and is 1.0 when every attribution has all five features.
C18_QualityIsAverageOfFeatureScores ==
    Attributed =>
        /\ PrimaryQuality =
               FDivInt(FSum([i \in DOMAIN PrimaryAttributions |->
                                FSum(PresenceScoreTerms(PrimaryAttributions[i]))]),
                       Len(PrimaryAttributions))
        /\ ~FGt(PrimaryQuality, FOne)
        /\ (\A i \in DOMAIN PrimaryAttributions : AllFiveFeatures(PrimaryAttributions[i]))
               => PrimaryQuality = FOne

(***************************************************************************)
(* Properties of the projection to search text (SpecSearch)                *)
(***************************************************************************)
\* the fragments of rel when the triple is added only if both entities and
\* the relationship type are non-empty
FragmentsAllPresent(rel) ==
    (IF rel.source_entity # <<>> /\ rel.relationship_type # <<>> /\ rel.target_entity # <<>>
     THEN << rel.source_entity \o <<" ">> \o rel.relationship_type \o <<" ">> \o rel.target_entity >>
     ELSE <<>>)
    \o (IF rel.evidence # <<>> THEN <<rel.evidence>> ELSE <<>>)
    \o (IF rel.cultural_context # <<>> THEN <<rel.cultural_context>> ELSE <<>>)
    \o (IF rel.temporal_context # <<>> THEN <<rel.temporal_context>> ELSE <<>>)
    \o (IF rel.source # <<>> THEN << <<"S","o","u","r","c","e",":"," ">> \o rel.source >> ELSE <<>>)

\* C19 as stated: the text a hit was matched on is the projection of its
\* relationship computed again (lowered), that projection is the fragments
\* present joined by single spaces, the triple being one of them if and only
\* if both entities and the type are non-empty, and it holds no two
\* consecutive spaces.
C19_ProjectionOmitsAbsentFragments ==
    Served =>
        \A i \in DOMAIN searchLog.hits :
            LET rel == searchLog.hits[i].relationship
                text == searchLog.hits[i].searchable_text
            IN  /\ text = Lower(CreateSearchableText(rel))
                /\ text = Lower(JoinSp(FragmentsAllPresent(rel)))
                /\ ~Contains(text, <<" ", " ">>)

(***************************************************************************)
(* Properties of the attribution metrics (Spec), continued                 *)
(***************************************************************************)
PrimaryMetrics == calculate_attribution_quality_metrics(PrimaryAttributions)

\* the attributions that are not citation-ready: no citation, and the url,
\* the source or the evidence text missing
NotCitationReady(attributions) ==
    {i \in DOMAIN attributions :
        /\ attributions[i].citation = <<>>
        /\ \/ attributions[i].url = <<>>
           \/ attributions[i].source = <<>>
           \/ attributions[i].evidence_text = <<>>}

\* C20: for a non-empty attribution list citation_readiness is the fraction
\* of attributions with a citation or with url, source and evidence text,
\* source_verification_score the fraction with a url; for the empty list the
\* three metrics are 0; the three metrics lie in [0,1]; an enhanced response
\* carries them.
C20_ReadinessAndVerificationFractions ==
    /\ NoMetrics.attribution_quality = FZero
    /\ NoMetrics.citation_readiness.num = 0
    /\ NoMetrics.source_verification_score.num = 0
    /\ Attributed =>
           LET n == Len(PrimaryAttributions)
               without_url == {i \in DOMAIN PrimaryAttributions : PrimaryAttributions[i].url = <<>>}
           IN  /\ PrimaryMetrics.citation_readiness =
                      [num |-> n - Cardinality(NotCitationReady(PrimaryAttributions)), den |-> n]
               /\ PrimaryMetrics.source_verification_score =
                      [num |-> n - Cardinality(without_url), den |-> n]
               /\ PrimaryMetrics.citation_readiness.num \in 0..n
               /\ PrimaryMetrics.source_verification_score.num \in 0..n
               /\ ~FGt(PrimaryMetrics.attribution_quality, FOne)
               /\ response.mode = "enhanced" =>
                      /\ response.citation_readiness = PrimaryMetrics.citation_readiness
                      /\ response.source_verification_score = PrimaryMetrics.source_verification_score
                      /\ response.attribution_quality = PrimaryMetrics.attribution_quality

\* an enhanced response over two attributions, one of them citation-ready
\* by its url, source and evidence text alone, the other not ready
C20_Witness_HalfReady ==
    /\ Attributed
    /\ response.mode = "enhanced"
    /\ Len(PrimaryAttributions) = 2
    /\ response.citation_readiness = [num |-> 1, den |-> 2]
    /\ response.source_verification_score = [num |-> 1, den |-> 2]
    /\ \E i \in DOMAIN PrimaryAttributions :
           CitationReady(PrimaryAttributions[i]) /\ PrimaryAttributions[i].citation = <<>>

(***************************************************************************)
(* Properties of the attributions over enriched hits (SpecRich)            *)
(***************************************************************************)
\* max(1, number of entity attributions) of hit i
AttributionCount(result) ==
    IF result.chunk_metadata.entity_attributions = <<>> THEN 1
    ELSE Len(result.chunk_metadata.entity_attributions)

\* the attributions emitted for the hits before hit i
RECURSIVE AttributionOffset(_, _)
AttributionOffset(results, i) ==
    IF i = 1 THEN 0
    ELSE AttributionOffset(results, i - 1) + AttributionCount(results[i - 1])

\* C21: the enhanced attributions of the primary hits are, hit after hit in
\* ranking order, one attribution per entity attribution of the hit (copying
\* its evidence, confidence and citation), or one attribution derived from
\* the content (evidence_type contextual) when the hit has none; their number
\* is the sum of max(1, entity attributions) and is not zero.
C21_OneAttributionPerEntityEntry ==
    Attributed =>
        /\ Len(PrimaryAttributions) =
               AttributionOffset(primary_results, Len(primary_results))
                 + AttributionCount(primary_results[Len(primary_results)])
        /\ Len(PrimaryAttributions) >= Len(primary_results)
        /\ response.mode = "enhanced" => response.sources = PrimaryAttributions
        /\ \A i \in DOMAIN primary_results :
               LET result == primary_results[i]
                   entries == result.chunk_metadata.entity_attributions
                   at == AttributionOffset(primary_results, i)
               IN  IF entries = <<>>
                   THEN /\ PrimaryAttributions[at + 1].evidence_type = "contextual"
                        /\ PrimaryAttributions[at + 1].evidence_text = Excerpt200(result.content)
                        /\ PrimaryAttributions[at + 1].source = result.source_info.source
                   ELSE \A j \in DOMAIN entries :
                            /\ PrimaryAttributions[at + j].artist = entries[j].entity
                            /\ PrimaryAttributions[at + j].evidence_text = entries[j].evidence
                            /\ PrimaryAttributions[at + j].citation = entries[j].citation
                            /\ PrimaryAttributions[at + j].confidence.num = entries[j].confidence
                            /\ PrimaryAttributions[at + j].source = result.source_info.source

\* an enhanced response over a hit without entity attributions followed by a
\* hit with two: three attributions, the last two for the second hit
C21_Witness_LegacyThenPair ==
    /\ Attributed
    /\ response.mode = "enhanced"
    /\ Len(primary_results) = 2
    /\ primary_results[1].chunk_metadata.entity_attributions = <<>>
    /\ Len(primary_results[2].chunk_metadata.entity_attributions) = 2
    /\ Len(response.sources) = 3
    /\ response.sources[2].artist # response.sources[3].artist

(***************************************************************************)
(* Properties of the external calls of one request (Spec)                  *)
(***************************************************************************)
\* the calls made so far: at most one of the language model, at most two of
\* the search backend, the second one by fallback_response
CallsWithinLimits ==
    /\ Len(log.llm) <= 1
    /\ Len(log.searches) <= 2
    /\ Len(log.searches) = 2 => log.entered_fallback

\* a step makes no call again: once the synthesizer has been invoked neither
\* it nor the language model is called, and once fallback_response has
\* searched no search is sent
NoCallRepeated ==
    /\ log.synth # "none" => (log'.synth = log.synth /\ log'.llm = log.llm)
    /\ log.llm # <<>> => log'.llm = log.llm
    /\ log.entered_fallback => log'.searches = log.searches

\* C22: within one process_query call the synthesizer is invoked at most
\* once, the language model is called at most once and the search backend at
\* most twice (the primary search, and one search inside the fallback).
C22_NoExternalCallRetried == [](CallsWithinLimits) /\ [][NoCallRepeated]_vars

\* a request that used every call it may make: the language model failed,
\* the synthesizer returned its fallback text, the response construction
\* raised and fallback_response searched again
C22_Witness_EveryCallMade ==
    /\ Done
    /\ LLMFailed
    /\ log.synth = "returned"
    /\ log.respond = "raised"
    /\ Len(log.llm) = 1
    /\ Len(log.searches) = 2

(***************************************************************************)
(* Properties of the discovery pathways (SpecRich)                         *)
(***************************************************************************)
\* the distinct entities and the distinct relationship types of the hits
HitEntities(results) ==
    UNION { {results[i].entities[j] : j \in DOMAIN results[i].entities} : i \in DOMAIN results }

HitTypes(results) ==
    {results[i].chunk_metadata.relationship_type : i \in DOMAIN results} \ { <<>> }

\* pathway p is a templated suggestion / a relationship-type suggestion
IsTemplated(p) ==
    p[1] \in {"Explore connections between ", "Discover who influenced ",
              "Find artists similar to "}

IsTyped(p, types) == \E t \in types : p = <<"Explore more ">> \o t \o <<" relationships">>

\* C23: the pathways of a full response are the 3 templated suggestions over
\* two distinct entities of the hits when the hits name at least 2 distinct
\* entities (none of them otherwise), followed by one "Explore more {type}
\* relationships" for each of at most 2 distinct relationship types of the
\* hits; never more than 5 entries.
C23_FullModePathways ==
    (Done /\ response.mode = "full") =>
        LET P == response.discovery_pathways
            entities == HitEntities(primary_results)
            types == HitTypes(primary_results)
            t == IF Cardinality(entities) >= 2 THEN 3 ELSE 0
            n == IF Cardinality(types) < 2 THEN Cardinality(types) ELSE 2
        IN  /\ Len(P) <= 5
            /\ Len(P) = t + n
            /\ \A i \in 1..t : IsTemplated(P[i])
            /\ t = 3 =>
                   \E a, b \in entities :
                       /\ a # b
                       /\ P[1] = <<"Explore connections between ">> \o a \o <<" and ">> \o b
                       /\ P[2] = <<"Discover who influenced ">> \o a
                       /\ P[3] = <<"Find artists similar to ">> \o a
            /\ \A i \in (t + 1)..Len(P) : IsTyped(P[i], types)
            /\ \A i, j \in (t + 1)..Len(P) : i # j => P[i] # P[j]

\* a full response over more than 10 distinct entities and 2 relationship
\* types: 5 pathways, the templated ones over entities the set yielded first
C23_Witness_FivePathways ==
    /\ Done /\ response.mode = "full"
    /\ Cardinality(HitEntities(primary_results)) > 10
    /\ Cardinality(HitTypes(primary_results)) = 2
    /\ Len(response.discovery_pathways) = 5
    /\ response.discovery_pathways[2] = <<"Discover who influenced ">> \o Woo

\* the attributions that carry a citation
Cited(attributions) == {i \in DOMAIN attributions : attributions[i].citation # <<>>}

\* C24 as stated: an enhanced response over more than 2 attributions with a
\* citation lists "Find more academically citable sources" among its
\* pathways, which are at most 5.
C24_CitablePathwayListed ==
    (Done /\ response.mode = "enhanced" /\ Cardinality(Cited(response.sources)) > 2) =>
        /\ Len(response.discovery_pathways) <= 5
        /\ \E i \in DOMAIN response.discovery_pathways :
               response.discovery_pathways[i] = CitablePathway

(***************************************************************************)
(* Properties of the citation deduplication (SpecDedup)                    *)
(***************************************************************************)
\* the signature as the verified url if present, else the first 50
\* characters of the citation text
UrlOrFirst50(c) ==
    IF c.verification_url # <<>> THEN <<"url", c.verification_url>>
    ELSE <<"text", Take(c.citation, 50)>>

\* C25: the deduplicated list is ordered by confidence descending, holds no
\* two citations of one signature, holds a citation for every signature of
\* the input, each kept citation is an input citation of maximal confidence
\* among those of its signature, and a deduplicated list is left as it is.
C25_DeduplicationKeepsBestPerSignature ==
    citations.runs >= 1 =>
        LET in == citations.previous
            out == citations.list
        IN  /\ \A i, j \in DOMAIN out : i < j => out[i].confidence >= out[j].confidence
            /\ \A i, j \in DOMAIN out : i # j => UrlOrFirst50(out[i]) # UrlOrFirst50(out[j])
            /\ {UrlOrFirst50(out[i]) : i \in DOMAIN out} = {UrlOrFirst50(in[i]) : i \in DOMAIN in}
            /\ \A i \in DOMAIN out :
                   /\ \E j \in DOMAIN in : in[j] = out[i]
                   /\ \A j \in DOMAIN in :
                          UrlOrFirst50(in[j]) = UrlOrFirst50(out[i])
                              => in[j].confidence <= out[i].confidence
            /\ citations.runs >= 2 => out = in

\* three citations in ascending confidence, two of them with texts that
\* differ only after the 50th character: two are kept, the best first
C25_Witness_TextDuplicateDropped ==
    /\ citations.runs = 1
    /\ Len(citations.previous) = 3
    /\ Len(citations.list) = 2
    /\ citations.previous[1].confidence < citations.previous[3].confidence
    /\ \E i, j \in DOMAIN citations.previous :
           /\ citations.previous[i].citation # citations.previous[j].citation
           /\ citations.previous[i].verification_url = <<>>
           /\ citations.previous[j].verification_url = <<>>
           /\ Take(citations.previous[i].citation, 50) = Take(citations.previous[j].citation, 50)

(***************************************************************************)
(* Basic-tier attributions (SpecRich)                                      *)
(***************************************************************************)
\* C26: every basic-tier SourceAttribution of a response (the sources of a
\* full and of a fallback response) has an excerpt of at most 200
\* characters, whatever the length of the content of its hit.
C26_BasicExcerptAtMost200 ==
    (Done /\ response.mode \in {"full", "fallback"}) =>
        \A i \in DOMAIN response.sources : Len(response.sources[i].excerpt) <= 200

(***************************************************************************)
(* Filters of a request and the sources of its response (Spec)             *)
(***************************************************************************)
\* the hits the sources of the response were built from
SourceHits == IF response.mode = "fallback" THEN log.fallback_results ELSE primary_results

\* the hit comes from a relationship that passes the filters of the request
HitPassesFilters(result, rq) ==
    /\ rq.source_filter # <<>>
          => Contains(Lower(result.source_info.source), Lower(rq.source_filter[1]))
    /\ rq.entity_filter # <<>>
          => \E e \in DOMAIN result.entities :
                 Contains(Lower(result.entities[e]), Lower(rq.entity_filter[1]))

\* C27: for a request with a source_filter or an entity_filter, every source
\* of the response, whatever its mode (full, enhanced or fallback), is
\* derived from a relationship that satisfies those filters.
C27_SourcesSatisfyFilters ==
    (Done /\ backend.kind = "store" /\ ~response.raised
          /\ response.mode \in {"full", "enhanced", "fallback"}
          /\ (request.source_filter # <<>> \/ request.entity_filter # <<>>)) =>
        /\ \A i \in DOMAIN SourceHits : HitPassesFilters(SourceHits[i], request)
        /\ \A i \in DOMAIN response.sources :
               \E j \in DOMAIN SourceHits :
                   response.sources[i].source = SourceHits[j].source_info.source

\* the same for the modes full and enhanced alone
FullAndEnhancedSourcesSatisfyFilters ==
    (Done /\ response.mode # "fallback") => C27_SourcesSatisfyFilters

(***************************************************************************)
(* What the verification cache holds (SpecCache)                           *)
(***************************************************************************)
\* the last call of verify_source returned a result not served from the cache
ReturnedFresh == last_verify.calls > 0 /\ ~last_verify.raised /\ ~last_verify.hit

\* the cache holds the result of the last call under its url
CacheHoldsLastResult ==
    verification_cache[last_verify.url] =
        [cached |-> TRUE, verification |-> last_verify.returned]

\* C28: after a call verify_source(url) returns a result that was not served
\* from the cache, verification_cache[url] is that result, on every path
\* through verify_source, a malformed url included.
C28_CacheHoldsEveryFreshResult == ReturnedFresh => CacheHoldsLastResult

\* the same for the calls that reached the network request
RequestedResultIsCached ==
    (ReturnedFresh /\ last_verify.requested) => CacheHoldsLastResult

(***************************************************************************)
(* A reload that fails (SpecIndex)                                         *)
(***************************************************************************)
\* this step is a _load_enhanced_data awaited by build_index that raised
ReloadFails == index'.loads = index.loads - 1 /\ index'.build = "raised"

\* C29: a reload that fails leaves relationships, enhanced_data and
\* loaded_indices as they were before _load_enhanced_data was called, and the
\* error is raised to the caller.
C29_FailedReloadChangesNothing ==
    [][ReloadFails =>
          /\ index'.ref = index.ref /\ heap' = heap /\ relationships' = relationships
          /\ index'.enhanced_data = index.enhanced_data
          /\ index'.loaded_indices = index.loaded_indices]_vars

\* a reload that fails leaves relationships and loaded_indices as they were
FailedReloadKeepsRelationships ==
    [][ReloadFails =>
          /\ index'.ref = index.ref /\ heap' = heap /\ relationships' = relationships
          /\ index'.loaded_indices = index.loaded_indices
          /\ index'.enhanced_data \in {index.enhanced_data, -1}]_vars

(***************************************************************************)
(* Properties of the build jobs (SpecBuildFair)                            *)
(***************************************************************************)
JobMoves == { <<"started", "building">>, <<"building", "completed">>,
              <<"building", "failed">> }

\* the entries stay, and the status of each stays or moves along JobMoves
StatusMovesForward ==
    \A build_id \in DOMAIN build_jobs :
        /\ build_id \in DOMAIN build_jobs'
        /\ \/ build_jobs'[build_id].status = build_jobs[build_id].status
           \/ <<build_jobs[build_id].status, build_jobs'[build_id].status>> \in JobMoves

\* a step of the background task of a job leaves the entries of the others
OwnEntryOnly ==
    \A build_id \in 1..MaxJobs :
        (\/ build_index_background_begin(build_id)
         \/ \E outcome \in BuildOutcomes : build_index_background_end(build_id, outcome))
            => \A other \in DOMAIN build_jobs \ {build_id} :
                   build_jobs'[other] = build_jobs[other]

JobOver(build_id) ==
    /\ build_id \in DOMAIN build_jobs
    /\ build_jobs[build_id].status \in {"completed", "failed"}

\* C30: the status of a build job moves only started -> building -> completed
\* or started -> building -> failed, never backwards and never out of
\* completed or failed; every started job reaches completed or failed once
\* its background task runs; a background task changes no entry of
\* build_jobs but its own.
C30_BuildJobLifecycle ==
    /\ [][StatusMovesForward /\ OwnEntryOnly]_vars
    /\ \A build_id \in 1..MaxJobs :
           (build_id \in DOMAIN build_jobs) ~> JobOver(build_id)

\* two jobs under way at once, the second over before the first
C30_Witness_SecondJobOverFirst ==
    /\ Len(build_jobs) = 2
    /\ build_jobs[1].status = "building"
    /\ build_jobs[2].status = "failed"
    /\ build_status = [asked |-> TRUE, status_code |-> 200, build_id |-> 2,
                       status |-> "building", index_name |-> "main",
                       chunks_processed |-> 0, index_size_bytes |-> 0,
                       error_message |-> <<>>]

====
